---- MODULE Spec2Model ----
(***************************************************************************)
(* A model of tarmac's upload path: RetryBackend (src/sync_backend.rs)     *)
(* around a wrapped SyncBackend, RobloxSyncBackend, and the API clients    *)
(* of the repository's three client revisions (src/api, src/roblox_api,    *)
(* src/roblox_web_api.rs) talking to the Roblox upload service.            *)
(*                                                                         *)
(* One action is one interaction with the environment (a sleep, a call of  *)
(* the test double, one HTTP exchange, one Open Cloud call) followed by    *)
(* the code that runs up to the next interaction.                          *)
(***************************************************************************)
EXTENDS Integers, Sequences, FiniteSets, TLC

(* ------------------------------ bounds --------------------------------- *)

\* Inputs of one sync pass
MaxInputs == 2

\* Sync passes run one after the other
MaxPasses == 2

\* Inputs handed to one parse_root_folder call
MaxTreeInputs == 3

\* Calls made on one TSStream
MaxStreamCalls == 3

\* fmt_ts calls among them
MaxRenderings == 1

\* The wrapped writer refuses one of its first MaxWriterCalls write_str
\* calls of a call on the stream, or none
MaxWriterCalls == 8

\* Uploads made on one LocalSyncBackend
MaxLocalUploads == 2

\* max_retries ranges over 0..MaxRetriesBound
MaxRetriesBound == 2

\* longest script handed to the CountUploads test double
MaxScript == 3

\* number of RetryBackend::upload calls made on one backend
MaxUploads == 2

\* GET polls followed in the unbounded loop of api/opencloud.rs
MaxPolls == 3

(* ------------------------------- text ---------------------------------- *)

\* A text is a sequence of words; str::contains(word) is membership.
Contains(text, word) == \E i \in DOMAIN text : text[i] = word

MsgInappropriate == <<"name", "is", "inappropriate">>
MsgOther == <<"quota", "exceeded">>
BodyModerated == <<"asset", "name", "moderated">>
BodyOther == <<"bad", "request">>
NoText == <<>>

\* The digits of a decimal string, as str::parse::<u64> reads them.
DigitValue(c) ==
    CASE c = "0" -> 0 [] c = "1" -> 1 [] c = "2" -> 2 [] c = "3" -> 3
      [] c = "4" -> 4 [] c = "5" -> 5 [] c = "6" -> 6 [] c = "7" -> 7
      [] c = "8" -> 8 [] c = "9" -> 9 [] OTHER -> -1

\* A u64 is wider than the integers TLC computes with (up to 2147483647):
\* while it is parsed it is held as three limbs of eight decimal digits,
\* <<hi, mid, lo>> for hi * 10^16 + mid * 10^8 + lo.
ZeroLimbs == <<0, 0, 0>>

\* u64::MAX, 18446744073709551615
U64_MAX == <<1844, 67440737, 9551615>>

LimbsLeq(a, b) ==
    \/ a[1] < b[1]
    \/ a[1] = b[1] /\ a[2] < b[2]
    \/ a[1] = b[1] /\ a[2] = b[2] /\ a[3] <= b[3]

\* result.checked_mul(10) and then checked_add(digit) on a u64: <<>> when
\* either overflows, that is when acc * 10 + digit is above u64::MAX.
CheckedMulAdd(acc, digit) ==
    LET lo == acc[3] * 10 + digit
        mid == acc[2] * 10 + lo \div 100000000
        hi == acc[1] * 10 + mid \div 100000000
        next == <<hi, mid % 100000000, lo % 100000000>>
    IN  IF LimbsLeq(next, U64_MAX) THEN <<next>> ELSE <<>>

\* The u64 the limbs stand for: the number itself up to 2147483647, the
\* limbs as they are above it.
U64Value(a) ==
    IF a[1] = 0 /\ (a[2] < 21 \/ (a[2] = 21 /\ a[3] <= 47483647))
    THEN a[2] * 100000000 + a[3]
    ELSE a

\* The loop over the digits, acc being the limbs of the result so far:
\* <<>> on a character that is no digit and on overflow, else <<limbs>>.
RECURSIVE ParseDigits(_, _)
ParseDigits(s, acc) ==
    IF s = <<>> THEN <<acc>>
    ELSE IF DigitValue(Head(s)) < 0 THEN <<>>
    ELSE IF CheckedMulAdd(acc, DigitValue(Head(s))) = <<>> THEN <<>>
    ELSE ParseDigits(Tail(s), CheckedMulAdd(acc, DigitValue(Head(s)))[1])

\* str::parse::<u64>: <<>> stands for Err(ParseIntError) and <<n>> for
\* Ok(n). An empty string, a lone sign, any non-digit and a number above
\* u64::MAX are errors; one leading "+" is accepted.
ParseU64(s) ==
    LET digits == IF Head(s) = "+" THEN Tail(s) ELSE s IN
    IF s = <<>> THEN <<>>
    ELSE IF digits = <<>> THEN <<>>
    ELSE IF ParseDigits(digits, ZeroLimbs) = <<>> THEN <<>>
    ELSE <<U64Value(ParseDigits(digits, ZeroLimbs)[1])>>

\* A decimal digit, and `{}` of a u64
DigitChar(v) == CHOOSE c \in {"0", "1", "2", "3", "4", "5", "6", "7", "8", "9"} :
                    DigitValue(c) = v
RECURSIVE FormatU64(_)
FormatU64(n) ==
    IF n < 10 THEN <<DigitChar(n)>>
    ELSE Append(FormatU64(n \div 10), DigitChar(n % 10))

(* --------------------------- data and results -------------------------- *)

\* UploadInfo { name, contents, hash }
UploadInfos ==
    { [name |-> "foo", contents |-> <<1, 2>>, hash |-> "h1"],
      [name |-> "image", contents |-> <<3>>, hash |-> "h2"] }

NoData == [name |-> "", contents |-> <<>>, hash |-> ""]

\* ImageUploadData { image_data, name, description, group_id, user_id }
NoImage == [image_data |-> <<>>, name |-> "", description |-> "",
            group_id |-> <<>>, user_id |-> <<>>]

\* RobloxApiError: a tag, and the status and text the variant carries.
ApiErr(tag, status, text) == [tag |-> tag, status |-> status, text |-> text]
NoApiErr == ApiErr("none", 0, NoText)

\* Result<api::UploadResponse, RobloxApiError>, or a panic of the client.
ClientOk(asset_id, backing_asset_id) ==
    [kind |-> "Ok", asset_id |-> asset_id, backing_asset_id |-> backing_asset_id,
     err |-> NoApiErr]
ClientErr(e) == [kind |-> "Err", asset_id |-> 0, backing_asset_id |-> 0, err |-> e]
ClientPanic == [kind |-> "Panic", asset_id |-> 0, backing_asset_id |-> 0, err |-> NoApiErr]
NoClientResult == [kind |-> "None", asset_id |-> 0, backing_asset_id |-> 0, err |-> NoApiErr]

\* Result<sync_backend::UploadResponse, sync_backend::Error>, or a panic.
\* id is AssetId::Id(id); err is the Error variant and source the
\* RobloxApiError a RobloxError wraps.
SyncOk(id) == [kind |-> "Ok", id |-> id, err |-> "none", source |-> NoApiErr]
SyncErr(err) == [kind |-> "Err", id |-> 0, err |-> err, source |-> NoApiErr]
RobloxError(source) == [kind |-> "Err", id |-> 0, err |-> "RobloxError", source |-> source]
SyncPanic == [kind |-> "Panic", id |-> 0, err |-> "none", source |-> NoApiErr]
NoResult == [kind |-> "None", id |-> 0, err |-> "none", source |-> NoApiErr]

RateLimited == SyncErr("RateLimited")
NoneBackend == SyncErr("NoneBackend")
Io == SyncErr("Io")

Last(s) == s[Len(s)]


(* ---------------------- the upload service's replies ------------------- *)

None == <<>>
Some(x) == <<x>>

\* An asset id that is all digits and one above u64::MAX
AboveU64Max ==
    <<"1", "8", "4", "4", "6", "7", "4", "4", "0", "7", "3", "7", "0", "9", "5", "5",
      "1", "6", "1", "6">>

\* One HTTP exchange with the legacy endpoint (data.roblox.com/data/upload).
\* net = FALSE is a transport failure (reqwest::Error); csrf is the
\* X-CSRF-Token header of the response ("none" when absent); readable says
\* whether the body can be read, json whether it parses as RawUploadResponse.
HttpReply(net, status, csrf, readable, json, success, message, asset_id, backing, text) ==
    [net |-> net, status |-> status, csrf |-> csrf, readable |-> readable,
     json |-> json, success |-> success, message |-> message,
     asset_id |-> asset_id, backing_asset_id |-> backing, text |-> text]

LegacyReplies ==
    { HttpReply(FALSE, 0, "none", FALSE, FALSE, FALSE, None, None, None, NoText),
      HttpReply(TRUE, 200, "none", TRUE, TRUE, TRUE, None, Some(7), Some(8), NoText),
      HttpReply(TRUE, 200, "none", TRUE, TRUE, TRUE, None, None, None, NoText),
      HttpReply(TRUE, 200, "none", TRUE, TRUE, FALSE, Some(MsgInappropriate), None, None, NoText),
      HttpReply(TRUE, 200, "none", TRUE, TRUE, FALSE, Some(MsgOther), None, None, NoText),
      HttpReply(TRUE, 200, "none", TRUE, TRUE, FALSE, None, None, None, NoText),
      HttpReply(TRUE, 200, "none", TRUE, FALSE, FALSE, None, None, None, BodyOther),
      HttpReply(TRUE, 200, "none", FALSE, FALSE, FALSE, None, None, None, NoText),
      HttpReply(TRUE, 403, "tok", TRUE, FALSE, FALSE, None, None, None, BodyOther),
      HttpReply(TRUE, 403, "none", TRUE, FALSE, FALSE, None, None, None, BodyOther),
      HttpReply(TRUE, 400, "none", TRUE, FALSE, FALSE, None, None, None, BodyModerated),
      HttpReply(TRUE, 429, "none", TRUE, FALSE, FALSE, None, None, None, BodyOther),
      HttpReply(TRUE, 500, "none", TRUE, FALSE, FALSE, None, None, None, BodyOther) }

\* One call of the rbxcloud crate (create_with_contents or get). ok = FALSE
\* is Err(RbxCloudError): HttpStatusError { code, msg } when http is TRUE,
\* another variant otherwise. path is AssetOperation.path, asset_id the
\* response's asset_id string (None while the operation is pending).
CloudReply(ok, http, code, msg, path, asset_id) ==
    [ok |-> ok, http |-> http, code |-> code, msg |-> msg, path |-> path,
     asset_id |-> asset_id]

CloudCreateReplies ==
    { CloudReply(TRUE, FALSE, 0, NoText, Some(<<"operations", "op1">>), None),
      CloudReply(TRUE, FALSE, 0, NoText, Some(<<"assets", "op1">>), None),
      CloudReply(TRUE, FALSE, 0, NoText, None, None),
      CloudReply(FALSE, TRUE, 400, BodyModerated, None, None),
      CloudReply(FALSE, TRUE, 400, BodyOther, None, None),
      CloudReply(FALSE, TRUE, 429, BodyOther, None, None),
      CloudReply(FALSE, TRUE, 0, BodyOther, None, None),
      CloudReply(FALSE, FALSE, 0, NoText, None, None) }

CloudPollReplies ==
    { CloudReply(TRUE, FALSE, 0, NoText, None, None),
      CloudReply(TRUE, FALSE, 0, NoText, None, Some(<<"1", "2">>)),
      CloudReply(TRUE, FALSE, 0, NoText, None, Some(<<"x", "1">>)),
      CloudReply(TRUE, FALSE, 0, NoText, None, Some(AboveU64Max)),
      CloudReply(FALSE, TRUE, 429, BodyOther, None, None),
      CloudReply(FALSE, FALSE, 0, NoText, None, None) }

\* One HTTP exchange of api/opencloud.rs with apis.roblox.com: json says
\* whether the body decodes as the expected operation type.
ApiReply(net, status, readable, json, path, asset_id, text) ==
    [net |-> net, status |-> status, readable |-> readable, json |-> json,
     path |-> path, asset_id |-> asset_id, text |-> text]

ApiCreateReplies ==
    { ApiReply(FALSE, 0, FALSE, FALSE, None, None, NoText),
      ApiReply(TRUE, 200, TRUE, TRUE, Some(<<"operations", "op1">>), None, NoText),
      ApiReply(TRUE, 200, TRUE, TRUE, None, None, NoText),
      ApiReply(TRUE, 200, TRUE, FALSE, None, None, BodyOther),
      ApiReply(TRUE, 400, TRUE, FALSE, None, None, BodyModerated),
      ApiReply(TRUE, 429, TRUE, FALSE, None, None, BodyOther),
      ApiReply(TRUE, 500, FALSE, FALSE, None, None, NoText) }

ApiPollReplies ==
    { ApiReply(FALSE, 0, FALSE, FALSE, None, None, NoText),
      ApiReply(TRUE, 200, TRUE, TRUE, None, None, NoText),
      ApiReply(TRUE, 200, TRUE, TRUE, None, Some(<<"1", "2">>), NoText),
      ApiReply(TRUE, 200, TRUE, TRUE, None, Some(<<"x", "1">>), NoText),
      ApiReply(TRUE, 200, TRUE, TRUE, None, Some(AboveU64Max), NoText),
      ApiReply(TRUE, 200, TRUE, FALSE, None, None, BodyOther),
      ApiReply(TRUE, 429, TRUE, FALSE, None, None, BodyOther) }

\* StatusCode::is_success
IsSuccess(status) == status >= 200 /\ status <= 299

\* StatusCode::from_u16(code).unwrap_or_default(): codes outside 100..999
\* are invalid and become the default, 200 OK.
FromU16(code) == IF code >= 100 /\ code <= 999 THEN code ELSE 200

TOO_MANY_REQUESTS == 429
FORBIDDEN == 403
BAD_REQUEST == 400


(* ------------------------- the legacy web client ----------------------- *)

\* Result<RawUploadResponse, RobloxApiError>
RawOk(success, message, asset_id, backing) ==
    [kind |-> "Raw", success |-> success, message |-> message, asset_id |-> asset_id,
     backing_asset_id |-> backing, err |-> NoApiErr]
RawErr(e) ==
    [kind |-> "Err", success |-> FALSE, message |-> None, asset_id |-> None,
     backing_asset_id |-> None, err |-> e]

Http == ApiErr("Http", 0, NoText)
AssetGetFailed == ApiErr("AssetGetFailed", 0, NoText)
MissingOperationPath == ApiErr("MissingOperationPath", 0, NoText)
MalformedOperationPath == ApiErr("MalformedOperationPath", 0, NoText)
MalformedAssetId == ApiErr("MalformedAssetId", 0, NoText)
ApiKeyNeedsCreatorId == ApiErr("ApiKeyNeedsCreatorId", 0, NoText)
RbxCloud == ApiErr("RbxCloud", 0, NoText)
ApiError(message) == ApiErr("ApiError", 0, message)
ResponseError(status, body) == ApiErr("ResponseError", status, body)
BadResponseJson(body) == ApiErr("BadResponseJson", 0, body)

\* What the moderation wrapper does next instead of returning: upload again
\* under the generic name.
ClientRetry == [kind |-> "Retry", asset_id |-> 0, backing_asset_id |-> 0, err |-> NoApiErr]
\* The create request was accepted: go on to poll the operation.
ClientPoll == [kind |-> "Poll", asset_id |-> 0, backing_asset_id |-> 0, err |-> NoApiErr]

\* The match on the first response resending on every 403
NeedsCsrfRetryAnyForbidden(reply) == reply.net /\ reply.status = FORBIDDEN

\* execute_with_csrf_retry, first response: resend exactly when the status
\* is 403 and the response carries an X-CSRF-Token header.
NeedsCsrfRetry(reply) == reply.net /\ reply.status = FORBIDDEN /\ reply.csrf # "none"

\* LegacyClient::upload_image_raw on the response execute_with_csrf_retry
\* returned (a transport failure was returned by `?` before).
UploadImageRaw(reply) ==
    IF ~reply.net THEN RawErr(Http)
    ELSE IF ~reply.readable THEN RawErr(Http)
    ELSE IF IsSuccess(reply.status)
         THEN IF reply.json
              THEN RawOk(reply.success, reply.message, reply.asset_id, reply.backing_asset_id)
              ELSE RawErr(BadResponseJson(reply.text))
         ELSE RawErr(ResponseError(reply.status, reply.text))

\* The same function in api/roblox_web.rs and in roblox_web_api.rs.
ApiWebUploadImageRaw(reply) == UploadImageRaw(reply)
UploadImageLegacy(reply) == UploadImageRaw(reply)

\* LegacyClient::upload_image on the raw response: the unwraps panic.
UploadImage(raw) ==
    IF raw.kind = "Err" THEN ClientErr(raw.err)
    ELSE IF raw.success
         THEN IF raw.asset_id = None \/ raw.backing_asset_id = None
              THEN ClientPanic
              ELSE ClientOk(raw.asset_id[1], raw.backing_asset_id[1])
         ELSE IF raw.message = None
              THEN ClientPanic
              ELSE ClientErr(ApiError(raw.message[1]))

ApiWebUploadImage(raw) == UploadImage(raw)
WebApiUploadImage(raw) == UploadImage(raw)

\* LegacyClient::upload_image_with_moderation_retry on the first raw
\* response: ClientRetry stands for `self.upload_image(&new_data)`.
LegacyModerationRetry(raw) ==
    IF raw.kind = "Err" THEN ClientErr(raw.err)
    ELSE IF raw.success
         THEN IF raw.asset_id = None \/ raw.backing_asset_id = None
              THEN ClientPanic
              ELSE ClientOk(raw.asset_id[1], raw.backing_asset_id[1])
         ELSE IF raw.message = None
              THEN ClientPanic
              ELSE IF Contains(raw.message[1], "inappropriate")
                   THEN ClientRetry
                   ELSE ClientErr(ApiError(raw.message[1]))

\* api::roblox_web::RobloxApiClient::upload_image_with_moderation_retry
ApiWebModerationRetry(raw) == LegacyModerationRetry(raw)

\* roblox_web_api::RobloxApiClient::upload_image_with_moderation_retry on the
\* result of the first upload_image.
WebApiModerationRetry(first) ==
    IF first.kind # "Err" THEN first
    ELSE IF first.err.tag = "ApiError" /\ Contains(first.err.text, "inappropriate")
         THEN ClientRetry
    ELSE IF first.err.tag = "ResponseError" /\ first.err.status = BAD_REQUEST
            /\ Contains(first.err.text, "moderated")
         THEN ClientRetry
    ELSE first

(* ------------------------ the Open Cloud clients ----------------------- *)

MAX_RETRIES == 5
INITIAL_SLEEP_DURATION == 50
BACKOFF == 2

RECURSIVE Pow(_, _)
Pow(b, e) == IF e = 0 THEN 1 ELSE b * Pow(b, e - 1)

\* impl From<RbxCloudError> for RobloxApiError
FromRbxCloudError(reply) ==
    IF reply.http THEN ResponseError(FromU16(reply.code), reply.msg) ELSE RbxCloud

\* map_response_error of roblox_web_api.rs
MapResponseError(reply) == FromRbxCloudError(reply)

\* str::strip_prefix("operations/") on a path given by its segments
StripPrefix(path) ==
    IF Len(path) >= 2 /\ path[1] = "operations" THEN Some(Tail(path)) ELSE None

\* upload_image_inner up to the operation id: the create call's reply is an
\* error, lacks the path, has a malformed path, or names the operation.
OperationId(reply) ==
    IF ~reply.ok THEN ClientErr(FromRbxCloudError(reply))
    ELSE IF reply.path = None THEN ClientErr(MissingOperationPath)
    ELSE IF StripPrefix(reply.path[1]) = None THEN ClientErr(MalformedOperationPath)
    ELSE ClientPoll

\* One turn of upload_image_inner's polling loop with retry_count as it is
\* before the turn: ClientPoll stands for the `_` arm (count, sleep, loop).
PollAsset(reply, count) ==
    IF ~reply.ok THEN ClientErr(FromRbxCloudError(reply))
    ELSE IF reply.asset_id # None
         THEN IF ParseU64(reply.asset_id[1]) = <<>>
              THEN ClientErr(MalformedAssetId)
              ELSE ClientOk(ParseU64(reply.asset_id[1])[1],
                            ParseU64(reply.asset_id[1])[1])
         ELSE IF count > MAX_RETRIES
              THEN ClientErr(AssetGetFailed)
              ELSE ClientPoll

\* The sleep growing with the count, not with its square
PollSleepLinear(count) == INITIAL_SLEEP_DURATION * count * BACKOFF

\* The sleep of the `_` arm, in milliseconds, after retry_count += 1.
PollSleep(count) == INITIAL_SLEEP_DURATION * Pow(count, BACKOFF)

\* The same two steps in roblox_web_api.rs (upload_image_open_cloud), whose
\* success is a RawUploadResponse that upload_image turns into Ok.
WebApiOperationId(reply) == OperationId(reply)
WebApiPollAsset(reply, count) == PollAsset(reply, count)

\* OpenCloudClient::upload_image_with_moderation_retry (roblox_api) on the
\* result of the first upload_image.
OpenCloudModerationRetry(first) ==
    IF first.kind = "Err" /\ first.err.tag = "ResponseError"
       /\ first.err.status = BAD_REQUEST /\ Contains(first.err.text, "moderated")
    THEN ClientRetry
    ELSE first

\* handle_res of api/opencloud.rs: the body on a success status, else a
\* ResponseError; `res.text().unwrap()` panics on an unreadable body.
HandleRes(reply) ==
    IF IsSuccess(reply.status)
    THEN IF reply.json THEN ClientPoll ELSE ClientErr(Http)
    ELSE IF reply.readable
         THEN ClientErr(ResponseError(reply.status, reply.text))
         ELSE ClientPanic

\* api::opencloud::OpenCloudClient::upload_image up to the polling loop.
ApiCreate(reply) ==
    IF ~reply.net THEN ClientErr(Http)
    ELSE IF HandleRes(reply) # ClientPoll THEN HandleRes(reply)
    ELSE IF reply.path = None THEN ClientPanic
    ELSE ClientPoll

\* One turn of its loop: ClientPoll stands for going round again.
ApiPoll(reply) ==
    IF ~reply.net THEN ClientErr(Http)
    ELSE IF HandleRes(reply) # ClientPoll THEN HandleRes(reply)
    ELSE IF reply.asset_id # None
         THEN IF ParseU64(reply.asset_id[1]) = <<>>
              THEN ClientPanic
              ELSE ClientOk(ParseU64(reply.asset_id[1])[1],
                            ParseU64(reply.asset_id[1])[1])
         ELSE ClientPoll

\* api::opencloud::OpenCloudClient::upload_image_with_moderation_retry is
\* `self.upload_image(data)`.
ApiOpenCloudModerationRetry(first) == first


(* ----------------------------- the service ----------------------------- *)

\* The replies by which the service refuses an upload for its name: the
\* legacy endpoint answers 200 with success = false and a message naming
\* the name inappropriate, the Open Cloud endpoint answers 400 with a body
\* saying the name was moderated.
LegacyRejection(reply) ==
    /\ reply.net /\ reply.readable /\ IsSuccess(reply.status) /\ reply.json
    /\ ~reply.success /\ reply.message # None
    /\ Contains(reply.message[1], "inappropriate")

CloudRejection(reply) ==
    ~reply.ok /\ reply.http /\ reply.code = BAD_REQUEST /\ Contains(reply.msg, "moderated")

ApiRejection(reply) ==
    reply.net /\ reply.readable /\ reply.status = BAD_REQUEST
    /\ Contains(reply.text, "moderated")

(* ------------------------------ backends ------------------------------- *)

\* usize::MAX. A usize is kept as the residue modulo 2^64 that is nearest
\* zero, on which + 1 is the wrapping addition of the machine: usize::MAX
\* is -1, and usize::MAX + 1 wraps to 0.
USIZE_MAX == -1

\* RetryBackend::new counting one attempt too many
RetryBackendNewOneMore(n, overflow_checks) == Some(n + 2)

\* RetryBackend::new: `attempts: max_retries + 1` on a usize. The sum
\* overflows for usize::MAX (--retry takes any usize): a build with
\* overflow checks (debug) panics there, None, and a build without them
\* (release) wraps to 0 attempts.
RetryBackendNew(n, overflow_checks) ==
    IF n = USIZE_MAX /\ overflow_checks THEN None ELSE Some(n + 1)

\* --retry-delay, in seconds, at its default
RETRY_DELAY == 60

\* self.attempts after a pass through the loop of upload: the loop reads
\* it for its range `0..self.attempts` and has no assignment to it.
Attempts(n) == n

\* An attempt given the name the attempt before it ended with
DataCloneKeepsName(d, last) == IF last = NoImage THEN d ELSE [d EXCEPT !.name = last.name]

\* data.clone(): every attempt is given a copy of the caller's UploadInfo,
\* whatever the ImageUploadData of the attempt before (last) became.
DataClone(d, last) == d

\* The loop head sleeping before every attempt, the first included
LoopHeadSleepFirst(i, n) == IF i < n THEN "sleep" ELSE "exhausted"

\* The loop head of RetryBackend::upload at `index`: sleep first when it is
\* not the first attempt, call the wrapped backend, or fall out of the loop.
LoopHead(i, n) == IF i < n THEN (IF i # 0 THEN "sleep" ELSE "call") ELSE "exhausted"

\* The match retrying on every error
IsRateLimitedAnyErr(r) == r.kind = "Err"

\* match result { Err(Error::RateLimited) => {} _ => return result }
IsRateLimited(r) == r.kind = "Err" /\ r.err = "RateLimited"

\* The ImageUploadData RobloxSyncBackend::upload builds from the UploadInfo
\* and from its own upload_to_group_id and upload_to_user_id.
ImageUploadData(d, group_id, user_id) ==
    [image_data |-> d.contents, name |-> d.name, description |-> "Uploaded by Tarmac.",
     group_id |-> group_id, user_id |-> user_id]

\* ImageUploadData { name: "image", ..data }
GenericName(d) == [d EXCEPT !.name = "image"]

\* The match taking every ResponseError for a rate limit
RobloxSyncUploadAnyStatus(r) ==
    IF r.kind = "Ok" THEN SyncOk(r.backing_asset_id)
    ELSE IF r.kind = "Panic" THEN SyncPanic
    ELSE IF r.err.tag = "ResponseError" THEN RateLimited
    ELSE RobloxError(r.err)

\* The match without its rate-limit arm
RobloxSyncUploadNoRateLimit(r) ==
    IF r.kind = "Ok" THEN SyncOk(r.backing_asset_id)
    ELSE IF r.kind = "Panic" THEN SyncPanic
    ELSE RobloxError(r.err)

\* The match taking a failed asset resolution for a rate limit as well
RobloxSyncUploadRetryGetFailed(r) ==
    IF r.kind = "Ok" THEN SyncOk(r.backing_asset_id)
    ELSE IF r.kind = "Panic" THEN SyncPanic
    ELSE IF (r.err.tag = "ResponseError" /\ r.err.status = TOO_MANY_REQUESTS)
            \/ r.err.tag = "AssetGetFailed"
         THEN RateLimited
         ELSE RobloxError(r.err)

\* The match answering every error but a rate limit with a default response
RobloxSyncUploadSwallowsErrors(r) ==
    IF r.kind = "Ok" THEN SyncOk(r.backing_asset_id)
    ELSE IF r.kind = "Panic" THEN SyncPanic
    ELSE IF r.err.tag = "ResponseError" /\ r.err.status = TOO_MANY_REQUESTS
         THEN RateLimited
         ELSE SyncOk(0)

\* The match answering a response it cannot read with a default response
RobloxSyncUploadDefaultsOnBadResponse(r) ==
    IF r.kind = "Ok" THEN SyncOk(r.backing_asset_id)
    ELSE IF r.kind = "Panic" THEN SyncPanic
    ELSE IF r.err.tag = "ResponseError" /\ r.err.status = TOO_MANY_REQUESTS
         THEN RateLimited
         ELSE IF r.err.tag \in {"BadResponseJson", "MalformedAssetId", "MalformedOperationPath"}
              THEN SyncOk(0)
              ELSE RobloxError(r.err)

\* The match returning asset_id where backing_asset_id is meant
RobloxSyncUploadAssetId(r) ==
    IF r.kind = "Ok" THEN SyncOk(r.asset_id)
    ELSE IF r.kind = "Panic" THEN SyncPanic
    ELSE IF r.err.tag = "ResponseError" /\ r.err.status = TOO_MANY_REQUESTS
         THEN RateLimited
         ELSE RobloxError(r.err)

\* RobloxSyncBackend::upload, the match on the client's result
RobloxSyncUpload(r) ==
    IF r.kind = "Ok" THEN SyncOk(r.backing_asset_id)
    ELSE IF r.kind = "Panic" THEN SyncPanic
    ELSE IF r.err.tag = "ResponseError" /\ r.err.status = TOO_MANY_REQUESTS
         THEN RateLimited
         ELSE RobloxError(r.err)

\* NoneSyncBackend::upload
NoneSyncUpload(d) == NoneBackend

\* What the file system does with create_dir_all and write of contents.
\* fs::write is File::create, which creates the file or truncates it, then
\* write_all: "open_failed" fails in the first and leaves the files as they
\* were, "write_failed" fails in the second after `written` bytes, fewer
\* than all of them, went into the file (write_all of nothing cannot fail).
FsOutcomes(contents) ==
    { [step |-> st, written |-> 0] : st \in {"create_dir_failed", "open_failed"} }
        \cup { [step |-> "write_failed", written |-> k] : k \in 0..(Len(contents) - 1) }
        \cup { [step |-> "ok", written |-> Len(contents)] }

\* The file fs::write(path, contents) leaves at path: none when it was not
\* reached or could not open the file, the bytes written when it could.
FsWrite(path, contents, fs) ==
    IF fs.step \in {"ok", "write_failed"}
    THEN <<[path |-> path, contents |-> SubSeq(contents, 1, fs.written)]>>
    ELSE <<>>

\* DebugSyncBackend::new
DebugSyncBackendNew == 0

\* DebugSyncBackend::upload taking the id before the increment
DebugSyncUploadStaleId(last, d, fs) ==
    [last_id |-> last + 1,
     file |-> FsWrite(last, d.contents, fs),
     result |-> IF fs.step = "ok" THEN SyncOk(last) ELSE Io]

\* The counter moved only by an upload that wrote its file
DebugSyncUploadIdOnSuccess(last, d, fs) ==
    [last_id |-> IF fs.step = "ok" THEN last + 1 ELSE last,
     file |-> FsWrite(last + 1, d.contents, fs),
     result |-> IF fs.step = "ok" THEN SyncOk(last + 1) ELSE Io]

\* DebugSyncBackend::upload: last_id is incremented first; then the `?` of
\* create_dir_all and of write return the Io error (a write that fails
\* after the open leaves the file of that id with the bytes that went in);
\* the file is named by the id and the id is returned.
DebugSyncUpload(last, d, fs) ==
    [last_id |-> last + 1,
     file |-> FsWrite(last + 1, d.contents, fs),
     result |-> IF fs.step = "ok" THEN SyncOk(last + 1) ELSE Io]

\* The client get_client / get_preferred_client / upload_image_with_
\* preferred_api select: the Open Cloud one when an API key is given.
Versions == {"api", "roblox_api", "roblox_web_api"}
GetClient(key) == IF key THEN "apicloud" ELSE "legacy"
GetPreferredClient(key) == IF key THEN "cloud" ELSE "legacy"
PreferredApi(key) == IF key THEN "cloud" ELSE "legacy"
Transport(v, key) ==
    CASE v = "api" -> GetClient(key)
      [] v = "roblox_api" -> GetPreferredClient(key)
      [] OTHER -> PreferredApi(key)

\* create_with_contents was accepted: the service returned an operation
\* with a path.
Accepted(reply) == reply.ok /\ reply.path # None

\* Where an upload_image call starts.
StartPc(t) == CASE t = "legacy" -> "send" [] t = "cloud" -> "create" [] OTHER -> "apicreate"

\* What the client does with the raw response of the legacy endpoint: in
\* the first phase the moderation wrapper decides, in the second (the
\* generic-name upload) upload_image returns.
LegacyOutcome(v, ph, raw) ==
    IF ph = 1
    THEN CASE v = "api" -> ApiWebModerationRetry(raw)
           [] v = "roblox_api" -> LegacyModerationRetry(raw)
           [] OTHER -> WebApiModerationRetry(WebApiUploadImage(raw))
    ELSE CASE v = "api" -> ApiWebUploadImage(raw)
           [] v = "roblox_api" -> UploadImage(raw)
           [] OTHER -> WebApiUploadImage(raw)

\* The same for the result of an Open Cloud upload_image.
CloudOutcome(v, ph, r) ==
    IF ph = 1
    THEN CASE v = "roblox_api" -> OpenCloudModerationRetry(r)
           [] OTHER -> WebApiModerationRetry(r)
    ELSE r

\* with_results: the script is stored reversed, upload pops from the end.
RECURSIVE Reverse(_)
Reverse(s) == IF s = <<>> THEN <<>> ELSE Append(Reverse(Tail(s)), Head(s))

ScriptResults == {RateLimited, NoneBackend, SyncOk(10)}
Scripts == UNION { [1..n -> ScriptResults] : n \in 0..MaxScript }

\* CountUploads::upload: results.pop().unwrap_or(Err(Error::NoneBackend))
CountUploadsUpload(rs) == IF rs = <<>> THEN NoneBackend ELSE Last(rs)
Pop(rs) == IF rs = <<>> THEN rs ELSE SubSeq(rs, 1, Len(rs) - 1)

(* ---------------------- inputs and the manifest ----------------------- *)

\* A file path: the directories, then the file as its stem, its DPI suffix
\* (0 when the name has none) and its extension.
File(stem, scale, ext) == [stem |-> stem, scale |-> scale, ext |-> ext]
Path(dirs, file) == Append(dirs, file)

\* InputConfig { packable, codegen, codegen_base_path }
InputConfig(packable, codegen, base) ==
    [packable |-> packable, codegen |-> codegen, codegen_base_path |-> base]

\* The digest of an input's contents.
ContentHash(contents) ==
    CASE contents = <<1, 2>> -> "h1"
      [] contents = <<3>> -> "h2"
      [] OTHER -> "h0"

\* SyncInput { name, path, path_without_dpi_scale, dpi_scale, config,
\* contents, hash, id, slice }
SyncInput(name, dirs, scale, dpi, config, contents, id, slice) ==
    [name |-> name,
     path |-> Path(dirs, File(name, scale, "png")),
     path_without_dpi_scale |-> Path(dirs, File(name, 0, "png")),
     dpi_scale |-> dpi,
     config |-> config,
     contents |-> contents,
     hash |-> ContentHash(contents),
     id |-> id,
     slice |-> slice]

\* InputManifest { hash, id, slice, packable }; present = FALSE stands for
\* a name the manifest has no entry for.
InputManifest(hash, id, slice, packable) ==
    [present |-> TRUE, hash |-> hash, id |-> id, slice |-> slice, packable |-> packable]
NoEntry == [present |-> FALSE, hash |-> "", id |-> None, slice |-> None, packable |-> FALSE]

\* The asset names of the project.
Names == {"foo", "image"}
Contents == {<<1, 2>>, <<3>>}
Slices == {None, Some(<<0, 0, 8, 8>>)}

\* is_unchanged_since_last_sync comparing the hash only
IsUnchangedHashOnly(input, old_manifest) == input.hash = old_manifest.hash

\* is_unchanged_since_last_sync with the packable test inverted
IsUnchangedPackableFlipped(input, old_manifest) ==
    input.hash = old_manifest.hash /\ input.config.packable # old_manifest.packable

\* SyncInput::is_unchanged_since_last_sync
IsUnchangedSinceLastSync(input, old_manifest) ==
    input.hash = old_manifest.hash /\ input.config.packable = old_manifest.packable

\* The inputs one pass can discover: any input of each shape under test.
ProbeInputs ==
    { SyncInput(n, <<"assets">>, IF dpi = 1 THEN 0 ELSE dpi, dpi,
                InputConfig(pk, TRUE, <<"assets">>), c, id, sl) :
        n \in Names, dpi \in {1, 2}, pk \in BOOLEAN, c \in Contents,
        id \in {None, Some(5)}, sl \in Slices }

\* The manifest entries a previous sync can have left for one name.
ProbeEntries ==
    {NoEntry} \cup
    { InputManifest(h, Some(id), sl, pk) :
        h \in {"h1", "h2"}, id \in {5, 9}, sl \in Slices, pk \in BOOLEAN }

\* The manifest with no entry.
EmptyManifest == [n \in Names |-> NoEntry]

\* Change detection for one input against the manifest read at sync start:
\* unchanged when the manifest has an entry for its name that
\* is_unchanged_since_last_sync accepts.
Classify(input, old) ==
    IF old[input.name].present /\ IsUnchangedSinceLastSync(input, old[input.name])
    THEN "Unchanged" ELSE "Changed"

\* The identifier after change detection: carried forward from the
\* manifest for an unchanged input, cleared for a changed one.
Detected(input, old) ==
    IF Classify(input, old) = "Unchanged"
    THEN [input EXCEPT !.id = old[input.name].id, !.slice = old[input.name].slice]
    ELSE [input EXCEPT !.id = None, !.slice = None]

\* The positions of the changed inputs, in the order of the inputs.
RECURSIVE ChangedFrom(_, _, _)
ChangedFrom(ins, old, i) ==
    IF i > Len(ins) THEN <<>>
    ELSE (IF Classify(ins[i], old) = "Changed" THEN <<i>> ELSE <<>>)
         \o ChangedFrom(ins, old, i + 1)

\* The exit code of a process that has not exited.
NoExit == 0 - 1

\* The (name, bytes, hash) the dispatcher hands to the backend.
UploadInfoOf(input) ==
    [name |-> input.name, contents |-> input.contents, hash |-> input.hash]

\* An input of the pass whose upload failed.
Failed(cl, out, i) == cl[i] = "Changed" /\ out[i].kind # "Ok"

\* The manifest written at the end of a pass: one entry per input of the
\* pass, replaced as a whole; the entry of an input whose upload failed is
\* left as it was.
WrittenManifest(ins, cl, out, old) ==
    [n \in Names |->
        IF \E i \in 1..Len(ins) : ins[i].name = n
        THEN LET i == CHOOSE j \in 1..Len(ins) : ins[j].name = n
             IN  IF Failed(cl, out, i) THEN old[n]
                 ELSE InputManifest(ins[i].hash, ins[i].id, ins[i].slice,
                                    ins[i].config.packable)
        ELSE NoEntry]

\* The backends whose failure ends the whole pass.
HaltingBackends == {"None", "Local"}

\* The inputs of a project: the file of each name, as discovered.
Discovered(n) ==
    SyncInput(n, <<"assets">>, 0, 1, InputConfig(FALSE, TRUE, <<"assets">>),
              IF n = "foo" THEN <<1, 2>> ELSE <<3>>, None, None)
NameRank(n) == IF n = "foo" THEN 1 ELSE 2
InputLists ==
    { [i \in 1..Len(ns) |-> Discovered(ns[i])] :
        ns \in { s \in UNION { [1..k -> Names] : k \in 1..MaxInputs } :
                   \A i \in 1..(Len(s) - 1) : NameRank(s[i]) < NameRank(s[i + 1]) } }

\* What the previous sync can have recorded for a name: nothing, the
\* current state, other contents, or the other packable flag.
PassEntries(n) ==
    { NoEntry,
      InputManifest(Discovered(n).hash, Some(5), None, FALSE),
      InputManifest("h0", Some(5), None, FALSE),
      InputManifest(Discovered(n).hash, Some(5), None, TRUE) }
ManifestsFor(ins) ==
    { m \in [Names -> UNION { PassEntries(n) : n \in Names }] :
        \A n \in Names :
            IF \E i \in 1..Len(ins) : ins[i].name = n
            THEN m[n] \in PassEntries(n)
            ELSE m[n] = NoEntry }

(* --------------------------- the codegen tree -------------------------- *)

\* The tree of parse_root_folder: the paths of its Folder nodes, the paths
\* of its InputGroup nodes, and the entries of their inputs_by_dpi_scale
\* maps; panic is set when the call panicked.
Tree(folders, groups, variants) ==
    [panic |-> FALSE, folders |-> folders, groups |-> groups, variants |-> variants]
EmptyTree == Tree({}, {}, {})
PanicTree == [panic |-> TRUE, folders |-> {}, groups |-> {}, variants |-> {}]

\* path_without_dpi_scale.set_extension(""): the file is left as its stem.
SetExtensionEmpty(path) ==
    Append(SubSeq(path, 1, Len(path) - 1), path[Len(path)].stem)

\* strip_prefix handing the path back when base is not a prefix of it
StripBasePathLenient(path, base) ==
    IF Len(base) <= Len(path) /\ SubSeq(path, 1, Len(base)) = base
    THEN Some(SubSeq(path, Len(base) + 1, Len(path)))
    ELSE Some(path)

\* Path::strip_prefix, by components
StripBasePath(path, base) ==
    IF Len(base) <= Len(path) /\ SubSeq(path, 1, Len(base)) = base
    THEN Some(SubSeq(path, Len(base) + 1, Len(path)))
    ELSE None

\* The components loop with a `..` that is dropped when no segment is left
RECURSIVE CollapseClamped(_, _)
CollapseClamped(components, segments) ==
    IF components = <<>> THEN Some(segments)
    ELSE IF Head(components) = "." THEN CollapseClamped(Tail(components), segments)
    ELSE IF Head(components) = ".."
         THEN CollapseClamped(Tail(components),
                              SubSeq(segments, 1, Len(segments) - 1))
         ELSE CollapseClamped(Tail(components), Append(segments, Head(components)))

\* The loop over relative_path.components(): a normal component is pushed,
\* `.` is skipped, `..` pops a segment and panics when there is none.
RECURSIVE Collapse(_, _)
Collapse(components, segments) ==
    IF components = <<>> THEN Some(segments)
    ELSE IF Head(components) = "." THEN Collapse(Tail(components), segments)
    ELSE IF Head(components) = ".."
         THEN IF segments = <<>> THEN None
              ELSE Collapse(Tail(components), SubSeq(segments, 1, Len(segments) - 1))
         ELSE Collapse(Tail(components), Append(segments, Head(components)))

\* The segments of an input, None when computing them panics.
Segments(input) ==
    LET rel == StripBasePath(SetExtensionEmpty(input.path_without_dpi_scale),
                             input.config.codegen_base_path)
    IN  IF rel = None THEN None ELSE Collapse(rel[1], <<>>)

\* inputs_by_dpi_scale.insert(input.dpi_scale, input): BTreeMap::insert
\* replaces the value of a key that is present.
InsertVariant(variants, path, input) ==
    { v \in variants : ~ (v.path = path /\ v.dpi_scale = input.dpi_scale) }
        \cup {[path |-> path, dpi_scale |-> input.dpi_scale, input |-> input]}

\* The walk down the segments without its unreachable! arms: an entry of
\* the other kind is left in place and the input is placed beside it.
InsertInputUnchecked(tree, input) ==
    IF ~ input.config.codegen THEN tree
    ELSE IF Segments(input) = None THEN PanicTree
    ELSE LET segments == Segments(input)[1]
             n == Len(segments)
             dirs == { SubSeq(segments, 1, k) : k \in 1..(n - 1) }
         IN  IF n = 0 THEN tree
             ELSE Tree(tree.folders \cup dirs,
                       tree.groups \cup {segments},
                       InsertVariant(tree.variants, segments, input))

\* One turn of the loop over the inputs: the input is skipped when it is
\* not marked for codegen; the walk down its segments creates the missing
\* folders and panics (unreachable!) on a folder where the file should be
\* or a file where a folder should be.
InsertInput(tree, input) ==
    IF ~ input.config.codegen THEN tree
    ELSE IF Segments(input) = None THEN PanicTree
    ELSE LET segments == Segments(input)[1]
             n == Len(segments)
             dirs == { SubSeq(segments, 1, k) : k \in 1..(n - 1) }
         IN  IF n = 0 THEN tree
             ELSE IF dirs \cap tree.groups # {} \/ segments \in tree.folders
                  THEN PanicTree
                  ELSE Tree(tree.folders \cup dirs,
                            tree.groups \cup {segments},
                            InsertVariant(tree.variants, segments, input))

\* parse_root_folder from input i on
RECURSIVE ParseFrom(_, _, _)
ParseFrom(tree, ins, i) ==
    IF tree.panic \/ i > Len(ins) THEN tree
    ELSE ParseFrom(InsertInput(tree, ins[i]), ins, i + 1)

\* GroupedItem::parse_root_folder
ParseRootFolder(ins) == ParseFrom(EmptyTree, ins, 1)

\* An input of the codegen stage: the file dirs/stem(@scale x).png.
TreeInput(name, dirs, stem, scale, dpi, codegen, base, id) ==
    [name |-> name,
     path |-> Path(dirs, File(stem, scale, "png")),
     path_without_dpi_scale |-> Path(dirs, File(stem, 0, "png")),
     dpi_scale |-> dpi,
     config |-> InputConfig(FALSE, codegen, base),
     contents |-> <<3>>,
     hash |-> ContentHash(<<3>>),
     id |-> Some(id),
     slice |-> None]

\* The inputs under test: a file, the same file named with an explicit 1x
\* suffix, its 2x variant, a file in a folder, a file named like that
\* folder, a path with `..` in it, a path whose `..` leaves the base, an
\* input not marked for codegen, one outside its base path, and one whose
\* extension-stripped path is the base path itself, and a path whose `..`
\* comes after two folders.
TreeInputs ==
    { TreeInput("a", <<"assets">>, "a", 0, 1, TRUE, <<"assets">>, 1),
      TreeInput("a@1x", <<"assets">>, "a", 1, 1, TRUE, <<"assets">>, 2),
      TreeInput("a@2x", <<"assets">>, "a", 2, 2, TRUE, <<"assets">>, 3),
      TreeInput("ui/b", <<"assets", "ui">>, "b", 0, 1, TRUE, <<"assets">>, 4),
      TreeInput("ui", <<"assets">>, "ui", 0, 1, TRUE, <<"assets">>, 5),
      TreeInput("ui/../a", <<"assets", "ui", "..">>, "a", 0, 1, TRUE, <<"assets">>, 6),
      TreeInput("../c", <<"assets", "..">>, "c", 0, 1, TRUE, <<"assets">>, 7),
      TreeInput("hidden", <<"assets">>, "a", 0, 1, FALSE, <<"assets">>, 8),
      TreeInput("other", <<"other">>, "a", 0, 1, TRUE, <<"assets">>, 9),
      TreeInput("assets", <<>>, "assets", 0, 1, TRUE, <<"assets">>, 10),
      TreeInput("ui/x/../b", <<"assets", "ui", "x", "..">>, "b", 0, 1, TRUE, <<"assets">>, 11) }

\* The slices of inputs parse_root_folder can be given.
TreeLists ==
    { s \in UNION { [1..k -> TreeInputs] : k \in 0..MaxTreeInputs } :
        \A i, j \in 1..Len(s) : i # j => s[i] # s[j] }

(* ------------------------- client construction -------------------------- *)

\* RobloxCredentials: token and api_key say whether the secret is given,
\* user_id and group_id are None or Some(id).
RobloxCredentials(token, key, user_id, group_id) ==
    [token |-> token, api_key |-> key, user_id |-> user_id, group_id |-> group_id]

\* Ok(client) and Err(RobloxApiError) of a constructor
Built(client) == [kind |-> "Ok", err |-> "none", client |-> client]
Refused(err) == [kind |-> "Err", err |-> err, client |-> None]
NotBuilt == [kind |-> "None", err |-> "none", client |-> None]
\* The constructor panicked: nothing is returned.
ConstructPanic == [kind |-> "Panic", err |-> "none", client |-> None]

\* What becomes of the POST get_csrf_token sends to auth.roblox.com: the
\* response carries an X-CSRF-Token header, carries none, or the request
\* fails in transport.
CsrfFetches == {"token", "missing", "failed"}

\* auth_cookie::get_csrf_token: `response.unwrap()` panics on a transport
\* failure; a response without the header is Err(MissingCsrfToken), which
\* every caller logs and turns into None.
GetCsrfToken(fetch) ==
    CASE fetch = "token" -> [kind |-> "Ok", value |-> Some("token")]
      [] fetch = "missing" -> [kind |-> "Err", value |-> None]
      [] OTHER -> [kind |-> "Panic", value |-> None]

\* AssetCreator::Group and AssetCreator::User; id is the id as a string.
GroupCreator(id) == [creator |-> "Group", id |-> id]
UserCreator(id) == [creator |-> "User", id |-> id]

\* The creator OpenCloudClient::new and roblox_web_api's RobloxApiClient::new
\* make of the ids of the credentials, `id.to_string()` included: None
\* when neither id is given, and when both are (no client is built then).
ClientCreator(group_id, user_id) ==
    IF group_id # None /\ user_id = None
    THEN Some(GroupCreator(FormatU64(group_id[1])))
    ELSE IF group_id = None /\ user_id # None
         THEN Some(UserCreator(FormatU64(user_id[1])))
         ELSE None

\* roblox_api::OpenCloudClient::new: the creator is matched first, then the
\* API key is required.
OpenCloudClientNew(credentials) ==
    IF credentials.group_id # None /\ credentials.user_id # None
    THEN Refused("AmbiguousCreatorType")
    ELSE IF credentials.group_id = None /\ credentials.user_id = None
         THEN Refused("ApiKeyNeedsCreatorId")
    ELSE IF ~ credentials.api_key THEN Refused("MissingAuth")
    ELSE Built(Some([api |-> "cloud", csrf_token |-> None,
                     creator |-> ClientCreator(credentials.group_id,
                                               credentials.user_id)]))

\* roblox_api::LegacyClient::new: with a token it calls get_csrf_token,
\* whose panic is its own; csrf is what becomes of that request.
LegacyClientNew(credentials, csrf) ==
    IF credentials.token /\ GetCsrfToken(csrf).kind = "Panic" THEN ConstructPanic
    ELSE Built(Some([api |-> "legacy",
                     csrf_token |-> IF credentials.token THEN GetCsrfToken(csrf).value
                                    ELSE None,
                     creator |-> None]))

\* roblox_api::get_preferred_client: the arms of its match, in order.
GetPreferredClientNew(credentials, csrf) ==
    IF ~ credentials.token /\ ~ credentials.api_key THEN Refused("MissingAuth")
    ELSE IF credentials.group_id # None /\ credentials.user_id # None
         THEN Refused("AmbiguousCreatorType")
    ELSE IF credentials.api_key THEN OpenCloudClientNew(credentials)
    ELSE LegacyClientNew(credentials, csrf)

\* roblox_web_api::RobloxApiClient::new: authentication is looked at
\* first, then the CSRF token is fetched, then the creator is matched.
WebApiClientNew(credentials, csrf) ==
    IF ~ credentials.api_key /\ ~ credentials.token THEN Refused("MissingAuth")
    ELSE IF credentials.token /\ GetCsrfToken(csrf).kind = "Panic" THEN ConstructPanic
    ELSE LET csrf_token == IF credentials.token THEN GetCsrfToken(csrf).value ELSE None
         IN  IF credentials.group_id # None /\ credentials.user_id = None
             THEN Built(Some([api |-> "web", csrf_token |-> csrf_token,
                              creator |-> ClientCreator(credentials.group_id,
                                                        credentials.user_id)]))
             ELSE IF credentials.group_id = None /\ credentials.user_id # None
             THEN Built(Some([api |-> "web", csrf_token |-> csrf_token,
                              creator |-> ClientCreator(credentials.group_id,
                                                        credentials.user_id)]))
             ELSE IF credentials.api_key /\ credentials.group_id = None
                     /\ credentials.user_id = None
             THEN Refused("ApiKeyNeedsCreatorId")
             ELSE IF credentials.group_id # None /\ credentials.user_id # None
             THEN Refused("AmbiguousCreatorType")
             ELSE Built(Some([api |-> "web", csrf_token |-> csrf_token, creator |-> None]))

\* The two ways a client is constructed
Constructors == {"get_preferred_client", "RobloxApiClient::new"}

\* What a constructor returns
Construct(constructor, credentials, csrf) ==
    IF constructor = "get_preferred_client"
    THEN GetPreferredClientNew(credentials, csrf)
    ELSE WebApiClientNew(credentials, csrf)

\* The credentials a constructor can be given
Credentials ==
    { RobloxCredentials(t, k, u, g) :
        t \in BOOLEAN, k \in BOOLEAN, u \in {None, Some(7)}, g \in {None, Some(9)} }

(* ---------------------- asset ids and local files ----------------------- *)

\* AssetId::Id(u64) and AssetId::Path(PathBuf). A path is its text, one
\* character per element; "<bad>" stands for bytes that are not UTF-8.
AssetIdId(n) == [kind |-> "Id", id |-> n, path |-> <<>>]
AssetIdPath(p) == [kind |-> "Path", id |-> 0, path |-> p]

\* PathBufExt::to_slash where `/` is the separator: the path's text when it
\* is UTF-8, None otherwise.
ToSlash(path) ==
    IF \E k \in 1..Len(path) : path[k] = "<bad>" THEN None ELSE Some(path)

\* Display for AssetId with one scheme for both variants
AssetIdDisplayOneScheme(id) ==
    IF id.kind = "Id"
    THEN Some(<<"r", "b", "x", "a", "s", "s", "e", "t", "i", "d", ":", "/", "/">>
                  \o FormatU64(id.id))
    ELSE IF ToSlash(id.path) = None THEN None
    ELSE Some(<<"r", "b", "x", "a", "s", "s", "e", "t", "i", "d", ":", "/", "/">>
                  \o ToSlash(id.path)[1])

\* <AssetId as Display>::fmt: Some(text), or None when the expect on
\* to_slash panics.
AssetIdDisplay(id) ==
    IF id.kind = "Id"
    THEN Some(<<"r", "b", "x", "a", "s", "s", "e", "t", "i", "d", ":", "/", "/">>
                  \o FormatU64(id.id))
    ELSE IF ToSlash(id.path) = None THEN None
    ELSE Some(<<"r", "b", "x", "a", "s", "s", "e", "t", ":", "/", "/">>
                  \o ToSlash(id.path)[1])

\* Path::has_root
HasRoot(text) == text # <<>> /\ text[1] = "/"

\* PathBuf::push: a path with a root replaces self; otherwise it is
\* appended after a separator.
Push(path, text) ==
    IF HasRoot(text) THEN text
    ELSE IF path = <<>> \/ path[Len(path)] = "/" THEN path \o text
    ELSE path \o <<"/">> \o text

\* Path::join
Join(path, text) == Push(path, text)

\* Path::parent: None for the empty path and the root
Parent(path) ==
    IF path = <<>> \/ path = <<"/">> THEN None
    ELSE LET cut == { k \in 1..(Len(path) - 1) : path[k] = "/" }
         IN  IF cut = {} THEN Some(<<>>)
             ELSE LET k == CHOOSE j \in cut : \A h \in cut : h <= j
                  IN  Some(SubSeq(path, 1, IF k = 1 THEN 1 ELSE k - 1))

\* LocalSyncBackend::get_asset_file_name
GetAssetFileName(d) == d.name \o <<".", "p", "n", "g">>

\* LocalSyncBackend::get_asset_path
GetAssetPath(scope, d) ==
    LET path == <<".", "t", "a", "r", "m", "a", "c">>
        scoped == IF scope = None THEN path ELSE Push(path, scope[1])
    IN  Push(scoped, GetAssetFileName(d))

\* LocalSyncBackend::upload: the file it leaves at file_path (replacing
\* the one that was there) and what it returns
LocalSyncUpload(content_path, scope, d, fs) ==
    LET asset_path == GetAssetPath(scope, d)
        file_path == Join(content_path, asset_path)
    IN  IF Parent(file_path) = None THEN [file |-> None, result |-> SyncPanic]
        ELSE IF fs.step # "ok"
        THEN [file |-> FsWrite(file_path, d.contents, fs), result |-> Io]
        ELSE [file |-> FsWrite(file_path, d.contents, fs),
              result |-> SyncOk(AssetIdPath(asset_path))]

\* Scopes: none, a project name, one with a root
Scopes == { None, Some(<<"p", "r", "o", "j">>), Some(<<"/", "a", "b", "s">>) }

\* Uploads: a plain name, a name with a folder, a name with a root
LocalUploads ==
    { [name |-> n, contents |-> <<3, 4>>, hash |-> ContentHash(<<3, 4>>)] :
        n \in { <<"f", "o", "o">>, <<"u", "i", "/", "b">>, <<"/", "x">> } }

\* Studio's content folder
ContentPaths == { <<"/", "s", "t", "u", "d", "i", "o", "/", "c", "o", "n", "t", "e", "n", "t">> }

\* Asset ids rendered: numbers of one and two digits, and paths chosen to
\* look like ids
AssetIds ==
    { AssetIdId(n) : n \in {0, 5, 12, 50} }
        \cup { AssetIdPath(p) : p \in { <<"5">>, <<"i", "d", ":", "/", "/", "5">>,
                                         <<"/", "5">>, <<"1", "2">>, <<>>, <<"<bad>">>,
                                         <<".", "t", "a", "r", "m", "a", "c", "/", "5">> } }

(* --------------------------- the TS stream ------------------------------ *)

\* Text is a sequence of characters. The pieces of value.split('\n'): one
\* more than the number of '\n' in value, the empty text giving one empty
\* piece.
RECURSIVE SplitLines(_)
SplitLines(value) ==
    IF \A k \in 1..Len(value) : value[k] # "\n" THEN <<value>>
    ELSE LET k == CHOOSE j \in 1..Len(value) :
                      value[j] = "\n" /\ \A h \in 1..(j - 1) : value[h] # "\n"
         IN  <<SubSeq(value, 1, k - 1)>> \o SplitLines(SubSeq(value, k + 1, Len(value)))

\* "\t".repeat(n)
Repeat(n) == [k \in 1..n |-> "\t"]

\* TSStream as it stands between two calls: inner is the text the wrapped
\* writer has taken; error is set when the last call returned Err (the
\* wrapped writer refused a write), panic when it panicked, and underflow
\* when it was the assertion of unindent that failed.
TSStream(indent_level, is_start_of_line, inner) ==
    [indent_level |-> indent_level, is_start_of_line |-> is_start_of_line,
     inner |-> inner, error |-> FALSE, panic |-> FALSE, underflow |-> FALSE]

\* TSStream::new
TSStreamNew(inner) == TSStream(0, TRUE, inner)

\* The fields of one TSStream
Frame(indent_level, is_start_of_line) ==
    [indent_level |-> indent_level, is_start_of_line |-> is_start_of_line]

\* The streams one call writes through: frames[1] is the stream the call
\* is made on, and each further frame is a TSStream that proxy_display!
\* built over the formatter of the frame below it. inner is the text the
\* wrapped writer has taken, writes counts the write_str calls made on the
\* wrapped writer during the call, and fail_at is the one of them that the
\* writer answers with Err, writing nothing (0: it takes them all).
Enter(s, fail_at) ==
    [frames |-> <<Frame(s.indent_level, s.is_start_of_line)>>,
     inner |-> s.inner, writes |-> 0, fail_at |-> fail_at,
     error |-> FALSE, panic |-> FALSE, underflow |-> FALSE]

\* The stream the call was made on, when the call is over
Leave(c) ==
    [indent_level |-> c.frames[1].indent_level,
     is_start_of_line |-> c.frames[1].is_start_of_line,
     inner |-> c.inner, error |-> c.error, panic |-> c.panic,
     underflow |-> c.underflow]

\* `output`: the stream a fmt_ts call is handed is the last frame
Output(c) == Len(c.frames)

\* A call stops where a write returns Err, which every `?` and every tail
\* expression hands up, and where it panics.
Halted(c) == c.error \/ c.panic

\* The rest of a function body after a step
Then(c, rest(_)) == IF Halted(c) THEN c ELSE rest(c)

\* TSStream::indent
Indent(c) == [c EXCEPT !.frames[Output(c)].indent_level = @ + 1]

\* TSStream::unindent: assert!(self.indent_level > 0)
Unindent(c) ==
    IF c.frames[Output(c)].indent_level > 0
    THEN [c EXCEPT !.frames[Output(c)].indent_level = @ - 1]
    ELSE [c EXCEPT !.panic = TRUE, !.underflow = TRUE]

\* write_str of the wrapped writer
InnerWriteStr(c, value) ==
    IF c.writes + 1 = c.fail_at
    THEN [c EXCEPT !.writes = @ + 1, !.error = TRUE]
    ELSE [c EXCEPT !.writes = @ + 1, !.inner = @ \o value]

RECURSIVE WriteStrAt(_, _, _)

\* TSStream::line of frame k
Line(c, k) ==
    WriteStrAt([c EXCEPT !.frames[k].is_start_of_line = TRUE], k - 1, <<"\n">>)

\* The body of write_str's loop for one piece, with the indentation written
\* in front of every piece
WriteLineIndentAlways(c, k, line, is_first_line) ==
    LET s == IF is_first_line THEN c ELSE Line(c, k)
        t == WriteStrAt([s EXCEPT !.frames[k].is_start_of_line = FALSE], k - 1,
                        Repeat(s.frames[k].indent_level))
    IN  IF Halted(s) \/ line = <<>> THEN s
        ELSE Then(t, LAMBDA o : WriteStrAt(o, k - 1, line))

\* The body of write_str's loop for one piece of the split, on frame k.
WriteLine(c, k, line, is_first_line) ==
    LET s == IF is_first_line THEN c ELSE Line(c, k)
        t == IF s.frames[k].is_start_of_line
             THEN WriteStrAt([s EXCEPT !.frames[k].is_start_of_line = FALSE], k - 1,
                             Repeat(s.frames[k].indent_level))
             ELSE s
    IN  IF Halted(s) \/ line = <<>> THEN s
        ELSE Then(t, LAMBDA o : WriteStrAt(o, k - 1, line))

\* write_str's loop from piece i on
RECURSIVE WriteLines(_, _, _, _)
WriteLines(c, k, lines, i) ==
    IF i > Len(lines) \/ Halted(c) THEN c
    ELSE WriteLines(WriteLine(c, k, lines[i], i = 1), k, lines, i + 1)

\* write_str of what frame k is written through: <TSStream as
\* fmt::Write>::write_str for a frame, the wrapped writer below frame 1.
WriteStrAt(c, k, value) ==
    IF k = 0 THEN InnerWriteStr(c, value)
    ELSE WriteLines(c, k, SplitLines(value), 1)

\* <TSStream as fmt::Write>::write_str on `output`
WriteStr(c, value) == WriteStrAt(c, Output(c), value)

\* write! and writeln! on `output`, for the literal pieces of the format
\* string and its string arguments in their order: fmt::write hands each
\* to write_str and stops at the first Err.
RECURSIVE WriteFmt(_, _)
WriteFmt(c, pieces) ==
    IF pieces = <<>> \/ Halted(c) THEN c
    ELSE WriteFmt(WriteStr(c, Head(pieces)), Tail(pieces))

\* The texts handed to write_str: none, a word, line ends before, after and
\* inside, blank lines, and a piece that begins with a tab (what a nested
\* stream writes for its own indentation).
Texts ==
    { <<>>, <<"x">>, <<"\n">>, <<"x", "\n">>, <<"\n", "x">>, <<"x", "\n", "x">>,
      <<"\n", "\n">>, <<"x", "\n", "\n", "x">>, <<"\t">>, <<"\t", "x">> }

\* The character ` of a template literal
Backtick == "backtick"

\* ModifierToken::as_str
AsStr(token) ==
    CASE token = "Export" -> "export"
      [] token = "Declare" -> "declare"
      [] token = "Readonly" -> "readonly"

\* enum Expression. NumericLiteral and TemplateLiteral are kinds of
\* typescript/ts_ast.rs only.
Identifier(text) == [kind |-> "Identifier", text |-> text]
StringLiteral(text) == [kind |-> "StringLiteral", text |-> text]
NumericLiteral(value) == [kind |-> "NumericLiteral", value |-> value]
TypeLiteral(members) == [kind |-> "TypeLiteral", members |-> members]
TemplateLiteral(head, template_spans) ==
    [kind |-> "TemplateLiteral", head |-> head, template_spans |-> template_spans]
FunctionType(parameters, return_type) ==
    [kind |-> "FunctionType", parameters |-> parameters, return_type |-> return_type]

\* TemplateSpan; span_kind is "Middle" or "Tail"
TemplateSpan(expression, literal, span_kind) ==
    [expression |-> expression, literal |-> literal, span_kind |-> span_kind]

\* enum TypeReference (typescript/ts_ast.rs)
TypeReferenceExpression(inner) == [kind |-> "Expression", inner |-> inner]
TypeReferenceUnion(types) == [kind |-> "Union", types |-> types]

\* Parameter: typed by a TypeReference in typescript/ts_ast.rs and by an
\* Expression in ts_ast.rs
Parameter(name, param_type) == [name |-> name, param_type |-> param_type]
ExpressionParameter(name, expression) == [name |-> name, expression |-> expression]

\* PropertySignature: modifiers is None or Some of a sequence of tokens
PropertySignature(name, modifiers, expression) ==
    [name |-> name, modifiers |-> modifiers, expression |-> expression]

\* char::is_alphabetic and char::is_alphanumeric on the characters in use
IsAlphabetic(c) == c \in {"a", "b", "T"}
IsAlphanumeric(c) == IsAlphabetic(c) \/ c \in {"1"}

\* `{}` of an i32: pad_integral writes the sign of a negative number with
\* write_char and the digits with write_str.
FormatI32(n) == IF n < 0 THEN <<<<"-">>, FormatU64(0 - n)>> ELSE <<FormatU64(n)>>

\* The `for modifier in modifiers` loop: write!(output, "{} ", as_str)
RECURSIVE WriteModifiers(_, _)
WriteModifiers(c, tokens) ==
    IF tokens = <<>> \/ Halted(c) THEN c
    ELSE WriteModifiers(WriteFmt(c, <<<<AsStr(Head(tokens))>>, <<" ">>>>), Tail(tokens))

RECURSIVE ExpressionFmtTs(_, _, _)
RECURSIVE PropertySignatureFmtTs(_, _, _)
RECURSIVE WriteMembers(_, _, _)
RECURSIVE FunctionTypeFmtTs(_, _, _)
RECURSIVE ParametersFmtTs(_, _, _, _)
RECURSIVE TypeReferenceFmtTs(_, _, _)
RECURSIVE UnionFmtTs(_, _, _, _)
RECURSIVE TemplateSpansFmtTs(_, _, _)

\* `{}` of an expression: proxy_display! builds a TSStream over the
\* formatter, which writes through to `output`, renders the expression on
\* it and drops it.
Display(module, c, expression) ==
    LET nested == [c EXCEPT !.frames = Append(@, Frame(0, TRUE))]
        shown == ExpressionFmtTs(module, nested, expression)
    IN  [shown EXCEPT !.frames = SubSeq(@, 1, Len(@) - 1)]

\* The type literal closed without the unindent call
ExpressionFmtTsNoUnindent(module, c, expression) ==
    CASE expression.kind = "Identifier" -> WriteFmt(c, <<expression.text>>)
      [] expression.kind = "StringLiteral" ->
             WriteFmt(c, <<<<"\"">>, expression.text, <<"\"">>>>)
      [] expression.kind = "NumericLiteral" -> WriteFmt(c, FormatI32(expression.value))
      [] expression.kind = "TypeLiteral" ->
             LET opened == WriteFmt(c, <<<<"{", "\n">>>>)
                 inside == Then(opened, Indent)
                 filled == Then(inside,
                                LAMBDA o : WriteMembers(module, o, expression.members))
             IN  Then(filled, LAMBDA o : WriteFmt(o, <<<<"}">>>>))
      [] expression.kind = "TemplateLiteral" ->
             Then(WriteFmt(c, <<<<Backtick>>, expression.head>>),
                  LAMBDA o : TemplateSpansFmtTs(module, o, expression.template_spans))
      [] expression.kind = "FunctionType" -> FunctionTypeFmtTs(module, c, expression)

\* <Expression as FmtTS>::fmt_ts
ExpressionFmtTs(module, c, expression) ==
    CASE expression.kind = "Identifier" -> WriteFmt(c, <<expression.text>>)
      [] expression.kind = "StringLiteral" ->
             WriteFmt(c, <<<<"\"">>, expression.text, <<"\"">>>>)
      [] expression.kind = "NumericLiteral" -> WriteFmt(c, FormatI32(expression.value))
      [] expression.kind = "TypeLiteral" ->
             LET opened == WriteFmt(c, <<<<"{", "\n">>>>)
                 inside == Then(opened, Indent)
                 filled == Then(inside,
                                LAMBDA o : WriteMembers(module, o, expression.members))
                 closed == Then(filled, Unindent)
             IN  Then(closed, LAMBDA o : WriteFmt(o, <<<<"}">>>>))
      [] expression.kind = "TemplateLiteral" ->
             Then(WriteFmt(c, <<<<Backtick>>, expression.head>>),
                  LAMBDA o : TemplateSpansFmtTs(module, o, expression.template_spans))
      [] expression.kind = "FunctionType" -> FunctionTypeFmtTs(module, c, expression)

\* The `for span in spans` loop of a template literal: "${", the
\* expression on `output`, and "}" with the literal; the loop is left at
\* the first tail span, after its closing backtick.
TemplateSpansFmtTs(module, c, spans) ==
    IF spans = <<>> \/ Halted(c) THEN c
    ELSE LET span == Head(spans)
             opened == WriteFmt(c, <<<<"$", "{">>>>)
             shown == Then(opened, LAMBDA o : ExpressionFmtTs(module, o, span.expression))
         IN  IF span.span_kind = "Middle"
             THEN TemplateSpansFmtTs(module,
                      Then(shown, LAMBDA o : WriteFmt(o, <<<<"}">>, span.literal>>)),
                      Tail(spans))
             ELSE Then(Then(shown, LAMBDA o : WriteFmt(o, <<<<"}">>>>)),
                       LAMBDA o : WriteFmt(o, <<span.literal, <<Backtick>>>>))

\* <FunctionType as FmtTS>::fmt_ts
FunctionTypeFmtTs(module, c, func) ==
    LET opened == WriteFmt(c, <<<<"(">>>>)
        listed == Then(opened, LAMBDA o : ParametersFmtTs(module, o, func.parameters, 1))
        arrow == Then(listed, LAMBDA o : WriteFmt(o, <<<<")", " ", "=", ">", " ">>>>))
    IN  Then(arrow, LAMBDA o : ExpressionFmtTs(module, o, func.return_type))

\* <Vec<Parameter> as FmtTS>::fmt_ts from parameter iter on. In
\* typescript/ts_ast.rs the type is rendered on `output` by
\* TypeReference::fmt_ts; in ts_ast.rs the parameter's expression is
\* written with `{}`.
ParametersFmtTs(module, c, parameters, iter) ==
    IF iter > Len(parameters) \/ Halted(c) THEN c
    ELSE LET named == WriteFmt(c, <<parameters[iter].name, <<":", " ">>>>)
             typed == Then(named,
                           LAMBDA o : IF module = "ts_ast"
                                      THEN Display(module, o, parameters[iter].expression)
                                      ELSE TypeReferenceFmtTs(module, o,
                                                              parameters[iter].param_type))
             split == Then(typed,
                           LAMBDA o : IF iter < Len(parameters)
                                      THEN WriteFmt(o, <<<<",", " ">>>>)
                                      ELSE o)
         IN  ParametersFmtTs(module, split, parameters, iter + 1)

\* <TypeReference as FmtTS>::fmt_ts
TypeReferenceFmtTs(module, c, reference) ==
    IF reference.kind = "Expression" THEN Display(module, c, reference.inner)
    ELSE UnionFmtTs(module, c, reference.types, 1)

\* The `for parameter in types` loop of a union from type iter on
UnionFmtTs(module, c, types, iter) ==
    IF iter > Len(types) \/ Halted(c) THEN c
    ELSE LET shown == TypeReferenceFmtTs(module, c, types[iter])
             split == Then(shown,
                           LAMBDA o : IF iter < Len(types)
                                      THEN WriteFmt(o, <<<<" ", "|", " ">>>>)
                                      ELSE o)
         IN  UnionFmtTs(module, split, types, iter + 1)

\* `for signature in literal { signature.fmt_ts(output)?; }`
WriteMembers(module, c, members) ==
    IF members = <<>> \/ Halted(c) THEN c
    ELSE WriteMembers(module, PropertySignatureFmtTs(module, c, Head(members)),
                      Tail(members))

\* <PropertySignature as FmtTS>::fmt_ts. In typescript/ts_ast.rs the name is
\* written bare when all its characters are alphanumeric and the first is
\* alphabetic (nth(0).unwrap() panics on the empty name, after the
\* modifiers were written) and bracketed and quoted otherwise; in ts_ast.rs
\* it is always written bare.
PropertySignatureFmtTs(module, c, property) ==
    LET s == IF property.modifiers = None THEN c
             ELSE WriteModifiers(c, property.modifiers[1])
        all_alphanumeric ==
            \A k \in 1..Len(property.name) : IsAlphanumeric(property.name[k])
        named == Then(s,
                      LAMBDA o :
                          IF module = "ts_ast"
                          THEN WriteFmt(o, <<property.name, <<":", " ">>>>)
                          ELSE IF all_alphanumeric /\ property.name = <<>>
                          THEN [o EXCEPT !.panic = TRUE]
                          ELSE IF all_alphanumeric /\ IsAlphabetic(property.name[1])
                          THEN WriteFmt(o, <<property.name, <<":", " ">>>>)
                          ELSE WriteFmt(o, <<<<"[", "\"">>, property.name,
                                             <<"\"", "]", ":", " ">>>>))
        shown == Then(named, LAMBDA o : Display(module, o, property.expression))
    IN  Then(shown, LAMBDA o : WriteFmt(o, <<<<";", "\n">>>>))

\* enum Statement. TypeAliasDeclaration, Comment and List are kinds of
\* typescript/ts_ast.rs only.
InterfaceDeclaration(name, modifiers, members) ==
    [kind |-> "InterfaceDeclaration", name |-> name, modifiers |-> modifiers,
     members |-> members]
VariableDeclaration(name, type_expression, modifiers, expression) ==
    [kind |-> "VariableDeclaration", name |-> name, type_expression |-> type_expression,
     modifiers |-> modifiers, expression |-> expression]
ExportAssignment(expression) == [kind |-> "ExportAssignment", expression |-> expression]
TypeAliasDeclaration(name, type_expression) ==
    [kind |-> "TypeAliasDeclaration", name |-> name, type_expression |-> type_expression]
CommentSingle(text) == [kind |-> "Comment", comment |-> "Single", text |-> text]
CommentMultiline(text) == [kind |-> "Comment", comment |-> "Multiline", text |-> text]
List(statements) == [kind |-> "List", statements |-> statements]

\* <InterfaceDeclaration as FmtTS>::fmt_ts: the modifiers, the opening
\* line, the members one level in, and the closing line.
InterfaceDeclarationFmtTs(module, c, declaration) ==
    LET s == IF declaration.modifiers = None THEN c
             ELSE WriteModifiers(c, declaration.modifiers[1])
        opened == Then(s, LAMBDA o : WriteFmt(o, <<<<"interface", " ">>, declaration.name,
                                                   <<" ", "{", "\n">>>>))
        inside == Then(opened, Indent)
        filled == Then(inside, LAMBDA o : WriteMembers(module, o, declaration.members))
        closed == Then(filled, Unindent)
    IN  Then(closed, LAMBDA o : WriteFmt(o, <<<<"}", "\n">>>>))

\* <VariableDeclaration as FmtTS>::fmt_ts; the kind is always Const.
VariableDeclarationFmtTs(module, c, declaration) ==
    LET s == IF declaration.modifiers = None THEN c
             ELSE WriteModifiers(c, declaration.modifiers[1])
        named == Then(s, LAMBDA o : WriteFmt(o, <<<<"const">>, <<" ">>, declaration.name>>))
        typed == Then(named,
                      LAMBDA o :
                          IF declaration.type_expression = None THEN o
                          ELSE Then(WriteFmt(o, <<<<":", " ">>>>),
                                    LAMBDA colon :
                                        ExpressionFmtTs(module, colon,
                                                        declaration.type_expression[1])))
        valued == Then(typed,
                       LAMBDA o :
                           IF declaration.expression = None THEN o
                           ELSE Then(WriteFmt(o, <<<<" ", "=", " ">>>>),
                                     LAMBDA equals :
                                         ExpressionFmtTs(module, equals,
                                                         declaration.expression[1])))
    IN  Then(valued, LAMBDA o : WriteFmt(o, <<<<";", "\n">>>>))

RECURSIVE StatementFmtTs(_, _, _)

\* The `for statement in statements` loop of Statement::List
RECURSIVE StatementsFmtTs(_, _, _)
StatementsFmtTs(module, c, statements) ==
    IF statements = <<>> \/ Halted(c) THEN c
    ELSE StatementsFmtTs(module, StatementFmtTs(module, c, Head(statements)),
                         Tail(statements))

\* <Statement as FmtTS>::fmt_ts; an export assignment and a type alias
\* write their expression with `{}`.
StatementFmtTs(module, c, statement) ==
    CASE statement.kind = "InterfaceDeclaration" ->
             InterfaceDeclarationFmtTs(module, c, statement)
      [] statement.kind = "VariableDeclaration" ->
             VariableDeclarationFmtTs(module, c, statement)
      [] statement.kind = "ExportAssignment" ->
             LET opened == WriteFmt(c, <<<<"export", " ", "=", " ">>>>)
                 shown == Then(opened, LAMBDA o : Display(module, o, statement.expression))
             IN  Then(shown, LAMBDA o : WriteFmt(o, <<<<";", "\n">>>>))
      [] statement.kind = "TypeAliasDeclaration" ->
             LET opened == WriteFmt(c, <<<<"type", " ">>, statement.name, <<" ", "=", " ">>>>)
                 shown == Then(opened,
                               LAMBDA o : Display(module, o, statement.type_expression))
             IN  Then(shown, LAMBDA o : WriteFmt(o, <<<<";", "\n">>>>))
      [] statement.kind = "Comment" ->
             IF statement.comment = "Single"
             THEN WriteFmt(c, <<<<"/", "/", " ">>, statement.text, <<"\n">>>>)
             ELSE WriteFmt(c, <<<<"/", "*">>, statement.text, <<"*", "/", "\n">>>>)
      [] statement.kind = "List" -> StatementsFmtTs(module, c, statement.statements)

\* The two modules that define TSStream and the AST
Modules == {"typescript/ts_ast", "ts_ast"}

\* Property names under test: empty, identifiers, a leading digit, a dash.
PropertyNames ==
    { <<>>, <<"a">>, <<"a", "1">>, <<"1", "a">>, <<"a", "-", "b">> }

\* Members rendered: with and without modifiers, typed by an identifier or
\* by a type literal with one member.
Properties ==
    { PropertySignature(n, m, e) :
        n \in PropertyNames,
        m \in {None, Some(<<"Readonly">>)},
        e \in {Identifier(<<"T">>),
               TypeLiteral(<<PropertySignature(<<"b">>, None, Identifier(<<"T">>))>>)} }

\* The parameters of the function type rendered: two, the second typed by
\* a type literal (in typescript/ts_ast.rs: by a union that holds it).
ParametersOf(module) ==
    IF module = "ts_ast"
    THEN <<ExpressionParameter(<<"a">>, Identifier(<<"T">>)),
           ExpressionParameter(<<"b">>,
               TypeLiteral(<<PropertySignature(<<"a">>, None, Identifier(<<"T">>))>>))>>
    ELSE <<Parameter(<<"a">>, TypeReferenceExpression(Identifier(<<"T">>))),
           Parameter(<<"b">>, TypeReferenceUnion(
               <<TypeReferenceExpression(NumericLiteral(12)),
                 TypeReferenceExpression(
                     TypeLiteral(<<PropertySignature(<<"a">>, None,
                                                     Identifier(<<"T">>))>>))>>))>>

\* Expressions rendered: an identifier, a string, an empty type literal, a
\* type literal whose member is typed by a type literal, one with the
\* empty name in it, a function type that returns a type literal and, in
\* typescript/ts_ast.rs, a negative number and a template literal with a
\* middle span, a tail span that holds a type literal and a span after it.
Expressions(module) ==
    { Identifier(<<"T">>),
      StringLiteral(<<"x">>),
      TypeLiteral(<<>>),
      TypeLiteral(<<PropertySignature(<<"a">>, Some(<<"Readonly">>),
          TypeLiteral(<<PropertySignature(<<"b">>, None, Identifier(<<"T">>))>>))>>),
      TypeLiteral(<<PropertySignature(<<>>, None, Identifier(<<"T">>))>>),
      FunctionType(ParametersOf(module),
          TypeLiteral(<<PropertySignature(<<"a">>, None, Identifier(<<"T">>))>>)) }
    \cup
    (IF module = "ts_ast" THEN {}
     ELSE { NumericLiteral(0 - 3),
            TemplateLiteral(<<"a">>,
                <<TemplateSpan(Identifier(<<"T">>), <<"b">>, "Middle"),
                  TemplateSpan(TypeLiteral(<<PropertySignature(<<"a">>, None,
                                               Identifier(<<"T">>))>>), <<"b">>, "Tail"),
                  TemplateSpan(Identifier(<<"T">>), <<"a">>, "Middle")>>) })

\* Statements rendered: interfaces without members, with two members and
\* with a member typed by a type literal, an export of a type literal, a
\* variable with modifiers, type and value and, in typescript/ts_ast.rs, a
\* type alias, comments of both kinds over two lines and a list.
Statements(module) ==
    { InterfaceDeclaration(<<"a">>, Some(<<"Declare">>), <<>>),
      InterfaceDeclaration(<<"a">>, None,
          <<PropertySignature(<<"a">>, None, Identifier(<<"T">>)),
            PropertySignature(<<"1", "a">>, None, Identifier(<<"T">>))>>),
      InterfaceDeclaration(<<"a">>, None,
          <<PropertySignature(<<"b">>, None,
              TypeLiteral(<<PropertySignature(<<"a">>, None, Identifier(<<"T">>))>>))>>),
      ExportAssignment(
          TypeLiteral(<<PropertySignature(<<"a">>, None, Identifier(<<"T">>))>>)),
      VariableDeclaration(<<"a">>, Some(Identifier(<<"T">>)), Some(<<"Export">>),
          Some(TypeLiteral(<<PropertySignature(<<"b">>, None, Identifier(<<"T">>))>>))) }
    \cup
    (IF module = "ts_ast" THEN {}
     ELSE { TypeAliasDeclaration(<<"a">>,
                TypeLiteral(<<PropertySignature(<<"b">>, None, Identifier(<<"T">>))>>)),
            CommentSingle(<<"x", "\n", "x">>),
            CommentMultiline(<<"x", "\n", "x">>),
            List(<<CommentSingle(<<"x">>),
                   InterfaceDeclaration(<<"a">>, None,
                       <<PropertySignature(<<"b">>, None, Identifier(<<"T">>))>>),
                   ExportAssignment(Identifier(<<"T">>))>>) })

(* ------------------------------- state --------------------------------- *)

VARIABLES
    max_retries,    \* the max_retries RetryBackend::new was given
    attempts,       \* RetryBackend.attempts
    delay,          \* RetryBackend.delay, in seconds
    backend,        \* the wrapped backend: "Count" (test double) or "Roblox"
    version,        \* the client revision behind the Roblox backend
    api_key,        \* whether an API key is configured
    results,        \* CountUploads.results
    counter,        \* CountUploads.counter
    csrf_token,     \* the legacy client's csrf_token ("none" for None)
    upload_calls,   \* RetryBackend::upload calls made so far
    rpc,            \* position in RetryBackend::upload
    index,          \* its loop variable
    data,           \* its argument
    calls,          \* wrapped-backend calls made by the current upload
    sleeps,         \* thread::sleep(delay) calls made by the current upload
    inner_results,  \* results the wrapped backend returned to it
    result,         \* what the current upload returned
    cpc,            \* position in the client
    cdata,          \* the ImageUploadData being uploaded
    phase,          \* 1: first upload, 2: upload under the generic name
    retry_count,    \* retry_count of the polling loop
    cresult,        \* what upload_image_with_moderation_retry returned
    requests,       \* upload requests sent by the current wrapped call
    attempt_log,    \* outcome of each upload_image of the current wrapped call
    polls,          \* polls made by the current upload_image
    poll_sleeps,    \* sleeps (ms) of the current polling loop
    responses,      \* what each send of execute_with_csrf_retry received
    poll_reply,     \* what the last GET of api::opencloud's loop received
    downloaded,     \* what the last download_image returned (None: none yet)
    download,       \* the download_image call: its position, the CSRF token of the
                    \* client made for it, the token each of its GETs carried
    upload_to_group_id, \* RobloxSyncBackend.upload_to_group_id
    upload_to_user_id,  \* RobloxSyncBackend.upload_to_user_id
    tarmac_user_id, \* the environment variable TARMAC_USER_ID (None: not set)
    client_group_id, \* credentials.group_id of the client (roblox_api, roblox_web_api)
    client_user_id, \* credentials.user_id of the client (roblox_api, roblox_web_api)
    client_token,   \* whether the client holds a token: credentials.token (roblox_api,
                    \* roblox_web_api), auth_token of api/roblox_web.rs
    mod_retries,    \* generic-name uploads started by the current upload
    passed,         \* the UploadInfo each attempt of it gave the wrapped backend
    creates,        \* Open Cloud create requests of it: name, and whether accepted
    last_id,        \* DebugSyncBackend.last_id
    debug_files,    \* files written under .tarmac-debug, in order
    debug_log,      \* what each upload of the DebugSyncBackend returned, in order
    inputs,         \* the SyncInputs of the pass, in catalog order
    manifest,       \* the manifest file: name -> entry
    old_manifest,   \* the manifest read at the start of the pass
    pass_pc,        \* position in the sync pass ("off": no pass runs; "panicked":
                    \* the process ended in RetryBackend::new, before the pass)
    class,          \* the classification of each input
    changed,        \* positions of the changed inputs, in order
    cursor,         \* changed inputs whose upload has been dealt with
    outcome,        \* what the backend returned for each input
    client_outcome, \* what the API client returned for each input
    exit_code,      \* exit code of the pass (NoExit while it runs)
    pass_no,        \* passes started so far
    prev_exit,      \* exit code of the previous pass
    tree_inputs,    \* the inputs parse_root_folder was given
    tree_pos,       \* the position of its loop over them
    root_folder,    \* its root_folder
    tree_pc,        \* "loop", "done", "panicked" ("off": not called)
    ts_pc,          \* "open", "failed", "panicked" ("off": no stream)
    ts_module,      \* the module the stream and the AST come from
    stream,         \* the TSStream
    ts_op,          \* the last call made on the stream ("none": none yet)
    ts_value,       \* the text the last write_str call was given
    ts_calls,       \* calls made on the stream
    ts_renders,     \* fmt_ts calls among them
    ts_prop,        \* the PropertySignature rendered last (None: none yet)
    ts_node,        \* the Statement or Expression rendered last (None: none yet)
    local_pc,       \* "open" while a LocalSyncBackend exists ("off": none)
    content_path,   \* LocalSyncBackend.content_path
    scope,          \* LocalSyncBackend.scope
    local_files,    \* files written under the content folder
    local_data,     \* the UploadInfo of its last upload (None: none yet)
    local_result,   \* what that upload returned
    local_calls,    \* uploads made on it
    asset_id,       \* the AssetId formatted last (None: none yet)
    rendered,       \* what Display gave for it
    constructor,    \* the constructor called ("none": none)
    credentials,    \* the RobloxCredentials it is given
    built,          \* what it returned (NotBuilt before it is called)
    client_uploads  \* uploads made through the client it returned

configVars == <<max_retries, attempts, delay, backend, version, api_key,
               upload_to_group_id, upload_to_user_id, tarmac_user_id,
               client_group_id, client_user_id, client_token>>
countVars == <<results, counter>>
retryVars == <<rpc, index, data, calls, sleeps, inner_results, result, upload_calls,
               mod_retries, passed, creates>>
clientVars == <<cpc, cdata, phase, retry_count, cresult, requests, attempt_log, polls,
                poll_sleeps, csrf_token, responses, poll_reply, downloaded, download>>
debugVars == <<last_id, debug_files, debug_log>>
passVars == <<inputs, manifest, old_manifest, pass_pc, class, changed, cursor, outcome,
              client_outcome, exit_code, pass_no, prev_exit>>
treeVars == <<tree_inputs, tree_pos, root_folder, tree_pc>>
streamVars == <<ts_pc, ts_module, stream, ts_op, ts_value, ts_calls, ts_renders, ts_prop,
               ts_node>>
localVars == <<local_pc, content_path, scope, local_files, local_data, local_result,
               local_calls, asset_id, rendered>>
ctorVars == <<constructor, credentials, built, client_uploads>>
outputVars == <<streamVars, localVars, ctorVars>>
vars == <<configVars, countVars, retryVars, clientVars, debugVars, passVars, treeVars,
          outputVars>>

\* The creator api::opencloud's upload_image puts in the request. The
\* argument of unwrap_or is evaluated whether a group id is given or not:
\* with no user id in the data and none in the environment its expect
\* panics (None here), before anything is sent.
AssetCreatorOf(d, env_user_id) ==
    IF d.user_id = None /\ env_user_id = None THEN None
    ELSE IF d.group_id # None THEN Some(GroupCreator(FormatU64(d.group_id[1])))
    ELSE Some(UserCreator(IF d.user_id # None THEN FormatU64(d.user_id[1])
                          ELSE env_user_id[1]))

\* `&groupId=` of the upload URL of api/roblox_web.rs
UrlGroupId(d) ==
    IF d.group_id # None THEN Some(GroupCreator(FormatU64(d.group_id[1]))) ELSE None

\* `&groupId=` of the legacy upload URL in each revision: the group id of
\* the data (api/roblox_web.rs), credentials.group_id whatever the user id
\* is (roblox_api/legacy.rs), the group of self.creator (roblox_web_api.rs).
LegacyGroupId(v, d, group_id, user_id) ==
    CASE v = "api" -> UrlGroupId(d)
      [] v = "roblox_api" ->
           IF group_id # None THEN Some(GroupCreator(FormatU64(group_id[1]))) ELSE None
      [] OTHER ->
           IF ClientCreator(group_id, user_id) # None
              /\ ClientCreator(group_id, user_id)[1].creator = "Group"
           THEN ClientCreator(group_id, user_id)
           ELSE None

\* An upload request as the service sees it: creator is the group of the
\* URL or the creator of the creation context (None when none is named).
Request(d, token, kind, creator) ==
    [name |-> d.name, image_data |-> d.image_data, description |-> d.description,
     csrf |-> token, kind |-> kind, creator |-> creator]

\* The client download_image sends its GET through: the client itself
\* ("self": LegacyClient, the RobloxApiClient of api/roblox_web.rs and
\* of roblox_web_api.rs, with or without an API key), or a legacy client
\* made for this one call by the Open Cloud clients of api/opencloud.rs
\* and roblox_api/open_cloud.rs ("temporary").
DownloadClient(v, key) ==
    IF Transport(v, key) = "legacy" \/ v = "roblox_web_api" THEN "self" ELSE "temporary"

\* The csrf_token a client can hold once its constructor has returned:
\* the constructors of the clients that have the field (RobloxApiClient of
\* api/roblox_web.rs, LegacyClient, RobloxApiClient of roblox_web_api.rs,
\* with an API key or without) call get_csrf_token when they are given a
\* token and store what it returned, or None when it returned an error.
\* The Open Cloud clients of api/opencloud.rs and roblox_api/open_cloud.rs
\* have no such field.
StoredCsrfTokens(v, key, token) ==
    IF token /\ DownloadClient(v, key) = "self" THEN {"none", "tok0"} ELSE {"none"}

\* The replies to the GET of download_image (roblox.com/asset): a transport
\* failure, the image, a body that cannot be read, a 403 with and without
\* a CSRF token, another error status.
DownloadReplies ==
    { HttpReply(FALSE, 0, "none", FALSE, FALSE, FALSE, None, None, None, NoText),
      HttpReply(TRUE, 200, "none", TRUE, FALSE, FALSE, None, None, None, NoText),
      HttpReply(TRUE, 200, "none", FALSE, FALSE, FALSE, None, None, None, NoText),
      HttpReply(TRUE, 403, "tok", TRUE, FALSE, FALSE, None, None, None, BodyOther),
      HttpReply(TRUE, 403, "none", TRUE, FALSE, FALSE, None, None, None, BodyOther),
      HttpReply(TRUE, 500, "none", TRUE, FALSE, FALSE, None, None, None, BodyOther) }

\* download_image on the response execute_with_csrf_retry handed back:
\* the status is not looked at, the body is copied whatever it is.
DownloadImageResult(response) ==
    IF ~response.net \/ ~response.readable THEN ClientErr(Http)
    ELSE ClientOk(0, 0)

\* The ids a RobloxSyncBackend of src/api's revision can be built with and
\* the values of TARMAC_USER_ID; the other two revisions have no such
\* fields.
GroupIds == {None, Some(3)}
UserIds == {None, Some(9)}
EnvUserIds == {None, Some(<<"4", "2">>)}

\* The group id and the user id of the credentials a client of revision v
\* can hold: those its constructor builds a client for, with an API key
\* (key), a token, or both.
ClientIds(v, key, token) ==
    { <<c.group_id, c.user_id>> :
        c \in { c \in Credentials :
                  /\ c.api_key = key
                  /\ c.token = token
                  /\ Construct(IF v = "roblox_api" THEN "get_preferred_client"
                               ELSE "RobloxApiClient::new", c, "token").kind = "Ok" } }

NoCreatorIds ==
    /\ upload_to_group_id = None
    /\ upload_to_user_id = None
    /\ tarmac_user_id = None
    /\ client_group_id = None
    /\ client_user_id = None
    /\ client_token = FALSE

CreatorIds ==
    IF backend = "Roblox" /\ version = "api"
    THEN /\ upload_to_group_id \in GroupIds
         /\ upload_to_user_id \in UserIds
         /\ tarmac_user_id \in EnvUserIds
         /\ client_group_id = None
         /\ client_user_id = None
         /\ client_token \in (IF api_key THEN {FALSE} ELSE BOOLEAN)
    ELSE IF backend = "Roblox"
    THEN /\ upload_to_group_id = None
         /\ upload_to_user_id = None
         /\ tarmac_user_id = None
         /\ client_token \in (IF api_key THEN BOOLEAN ELSE {TRUE})
         /\ \E ids \in ClientIds(version, api_key, client_token) :
              /\ client_group_id = ids[1]
              /\ client_user_id = ids[2]
    ELSE NoCreatorIds

\* No sync pass: the backend is used on its own.
NoPass ==
    /\ inputs = <<>>
    /\ manifest = EmptyManifest
    /\ old_manifest = EmptyManifest
    /\ pass_pc = "off"
    /\ class = <<>>
    /\ changed = <<>>
    /\ cursor = 0
    /\ outcome = <<>>
    /\ client_outcome = <<>>
    /\ exit_code = NoExit
    /\ pass_no = 0
    /\ prev_exit = NoExit

\* No codegen.
NoTree ==
    /\ tree_inputs = <<>>
    /\ tree_pos = 1
    /\ root_folder = EmptyTree
    /\ tree_pc = "off"

\* The upload path before its first call.
\* No TSStream is open.
NoStream ==
    /\ ts_pc = "off"
    /\ ts_module = "none"
    /\ stream = TSStreamNew(<<>>)
    /\ ts_op = "none"
    /\ ts_value = <<>>
    /\ ts_calls = 0
    /\ ts_renders = 0
    /\ ts_prop = None
    /\ ts_node = None

\* No LocalSyncBackend exists and no AssetId was formatted.
NoLocal ==
    /\ local_pc = "off"
    /\ content_path = <<>>
    /\ scope = None
    /\ local_files = {}
    /\ local_data = None
    /\ local_result = NoResult
    /\ local_calls = 0
    /\ asset_id = None
    /\ rendered = None

\* No client is being constructed.
NoConstructor ==
    /\ constructor = "none"
    /\ credentials = RobloxCredentials(FALSE, FALSE, None, None)
    /\ built = NotBuilt
    /\ client_uploads = 0

\* Nothing is being rendered, written out or constructed.
NoOutput == NoStream /\ NoLocal /\ NoConstructor

\* The call frame of download_image while none is under way
NoDownload == [pc |-> "idle", token |-> "none", fetches |-> 0, gets |-> <<>>]

\* RetryBackend::new(inner, max_retries, delay) has run, in a build with
\* or without overflow checks: the backend exists and no upload has been
\* made on it, or the constructor panicked and there is no backend.
NewRetryBackend ==
    /\ delay = RETRY_DELAY
    /\ \E overflow_checks \in BOOLEAN :
         LET new == RetryBackendNew(max_retries, overflow_checks)
         IN  IF new = None
             THEN attempts = 0 /\ rpc = "new_panicked"
             ELSE attempts = new[1] /\ rpc = "idle"

Idle ==
    /\ counter = 0
    /\ upload_calls = 0
    /\ index = 0
    /\ data = NoData
    /\ calls = 0
    /\ sleeps = 0
    /\ inner_results = <<>>
    /\ result = NoResult
    /\ cpc = "idle"
    /\ cdata = NoImage
    /\ phase = 1
    /\ retry_count = 0
    /\ cresult = NoClientResult
    /\ requests = <<>>
    /\ attempt_log = <<>>
    /\ polls = 0
    /\ poll_sleeps = <<>>
    /\ mod_retries = 0
    /\ passed = <<>>
    /\ creates = <<>>
    /\ responses = <<>>
    /\ poll_reply = None
    /\ downloaded = None
    /\ download = NoDownload
    /\ last_id = DebugSyncBackendNew
    /\ debug_files = <<>>
    /\ debug_log = <<>>

Init ==
    /\ max_retries \in (0..MaxRetriesBound) \cup {USIZE_MAX}
    /\ NewRetryBackend
    /\ \/ /\ backend = "Count"
          /\ version = "none"
          /\ api_key = FALSE
          /\ \E script \in Scripts : results = Reverse(script)
       \/ /\ backend = "Roblox"
          /\ version \in Versions
          /\ api_key \in BOOLEAN
          /\ results = <<>>
       \/ /\ backend \in {"None", "Debug"}
          /\ version = "none"
          /\ api_key = FALSE
          /\ results = <<>>
    /\ CreatorIds
    /\ csrf_token \in (IF backend = "Roblox"
                       THEN StoredCsrfTokens(version, api_key, client_token)
                       ELSE {"none"})
    /\ Idle
    /\ NoPass
    /\ NoTree
    /\ NoOutput

(* ------------------------------ actions -------------------------------- *)

retryRest == <<index, data, calls, sleeps, inner_results, result, upload_calls, passed>>
clientRest == <<cpc, cdata, phase, retry_count, polls, poll_sleeps, csrf_token, poll_reply>>

\* RetryBackend::upload is called with d: the loop starts at index 0.
Upload(d) ==
    /\ rpc \in {"idle", "done"}
    /\ download.pc = "idle"
    /\ upload_calls < MaxUploads
    /\ upload_calls' = upload_calls + 1
    /\ data' = d
    /\ index' = 0
    /\ calls' = 0
    /\ sleeps' = 0
    /\ inner_results' = <<>>
    /\ IF LoopHead(0, attempts) = "exhausted"
       THEN rpc' = "done" /\ result' = RateLimited
       ELSE rpc' = LoopHead(0, attempts) /\ result' = NoResult
    /\ mod_retries' = 0
    /\ passed' = <<>>
    /\ creates' = <<>>
    /\ responses' = <<>>
    /\ cresult' = NoClientResult
    /\ requests' = <<>>
    /\ attempt_log' = <<>>
    /\ downloaded' = None
    /\ download' = NoDownload
    /\ UNCHANGED <<configVars, outputVars, treeVars, countVars, clientRest, debugVars, passVars>>

\* thread::sleep(self.delay)
Sleep ==
    /\ rpc = "sleep"
    /\ sleeps' = sleeps + 1
    /\ rpc' = "call"
    /\ UNCHANGED <<index, data, calls, inner_results, result, upload_calls, mod_retries, passed, creates>>
    /\ UNCHANGED <<configVars, outputVars, treeVars, countVars, clientVars, debugVars, passVars>>

\* self.inner.upload(data.clone()) on the CountUploads test double
CallCount ==
    /\ rpc = "call"
    /\ backend = "Count"
    /\ calls' = calls + 1
    /\ counter' = counter + 1
    /\ passed' = Append(passed, DataClone(data, cdata))
    /\ inner_results' = Append(inner_results, CountUploadsUpload(results))
    /\ results' = Pop(results)
    /\ rpc' = "match"
    /\ UNCHANGED <<index, data, sleeps, result, upload_calls, mod_retries, creates>>
    /\ UNCHANGED <<configVars, outputVars, treeVars, clientVars, debugVars, passVars>>

\* self.inner.upload(data.clone()) on NoneSyncBackend
CallNone ==
    /\ rpc = "call"
    /\ backend = "None"
    /\ calls' = calls + 1
    /\ passed' = Append(passed, DataClone(data, cdata))
    /\ inner_results' = Append(inner_results, NoneSyncUpload(DataClone(data, cdata)))
    /\ rpc' = "match"
    /\ UNCHANGED <<index, data, sleeps, result, upload_calls, mod_retries, creates>>
    /\ UNCHANGED <<configVars, outputVars, treeVars, countVars, clientVars, debugVars, passVars>>

\* self.inner.upload(data.clone()) on DebugSyncBackend
CallDebug ==
    /\ rpc = "call"
    /\ backend = "Debug"
    /\ calls' = calls + 1
    /\ passed' = Append(passed, DataClone(data, cdata))
    /\ \E fs \in FsOutcomes(DataClone(data, cdata).contents) :
         LET done == DebugSyncUpload(last_id, DataClone(data, cdata), fs) IN
         /\ last_id' = done.last_id
         /\ debug_files' = debug_files \o done.file
         /\ debug_log' = Append(debug_log, done.result)
         /\ inner_results' = Append(inner_results, done.result)
    /\ rpc' = "match"
    /\ UNCHANGED <<index, data, sleeps, result, upload_calls, mod_retries, creates>>
    /\ UNCHANGED <<configVars, outputVars, treeVars, countVars, clientVars, passVars>>

\* self.inner.upload(data.clone()) on RobloxSyncBackend: it calls the
\* client's upload_image_with_moderation_retry.
CallRoblox ==
    /\ rpc = "call"
    /\ backend = "Roblox"
    /\ calls' = calls + 1
    /\ rpc' = "inner"
    /\ passed' = Append(passed, DataClone(data, cdata))
    /\ cdata' = ImageUploadData(DataClone(data, cdata), upload_to_group_id,
                                 upload_to_user_id)
    /\ phase' = 1
    /\ cpc' = StartPc(Transport(version, api_key))
    /\ retry_count' = 0
    /\ cresult' = NoClientResult
    /\ requests' = <<>>
    /\ attempt_log' = <<>>
    /\ polls' = 0
    /\ poll_sleeps' = <<>>
    /\ responses' = <<>>
    /\ poll_reply' = None
    /\ UNCHANGED <<index, data, sleeps, inner_results, result, upload_calls, mod_retries, creates,
                   downloaded, download>>
    /\ UNCHANGED <<configVars, outputVars, treeVars, countVars, csrf_token, debugVars, passVars>>

\* The moderation wrapper goes on with the outcome o of an upload_image:
\* it uploads again under the generic name, panics, or returns o.
Finish(o, rejected) ==
    /\ attempt_log' = Append(attempt_log, [outcome |-> o, rejected |-> rejected])
    /\ IF o.kind = "Retry"
       THEN /\ phase' = 2
            /\ cdata' = GenericName(cdata)
            /\ cpc' = StartPc(Transport(version, api_key))
            /\ mod_retries' = mod_retries + 1
            /\ UNCHANGED <<cresult, rpc>>
       ELSE IF o.kind = "Panic"
       THEN /\ cpc' = "idle"
            /\ cresult' = o
            /\ rpc' = "panicked"
            /\ UNCHANGED <<phase, cdata, mod_retries>>
       ELSE /\ cpc' = "ret"
            /\ cresult' = o
            /\ UNCHANGED <<phase, cdata, rpc, mod_retries>>

\* execute_with_csrf_retry sends the upload request; unless the reply asks
\* for a CSRF token, upload_image_raw and its caller handle it.
LegacySend ==
    /\ cpc = "send"
    /\ \E reply \in LegacyReplies :
         /\ requests' = Append(requests, Request(cdata, csrf_token, "upload", LegacyGroupId(version, cdata,
                                     client_group_id, client_user_id)))
         /\ responses' = Append(responses, reply)
         /\ IF NeedsCsrfRetry(reply)
            THEN /\ csrf_token' = reply.csrf
                 /\ cpc' = "resend"
                 /\ UNCHANGED <<phase, cdata, cresult, attempt_log, rpc, mod_retries>>
            ELSE /\ Finish(LegacyOutcome(version, phase, UploadImageRaw(reply)),
                           LegacyRejection(reply))
                 /\ UNCHANGED csrf_token
    /\ UNCHANGED <<retry_count, polls, poll_sleeps, creates, poll_reply, downloaded, download>>
    /\ UNCHANGED <<configVars, outputVars, treeVars, countVars, retryRest, debugVars, passVars>>

\* execute_with_csrf_retry sends the request again with the new token and
\* returns the second response whatever it is.
LegacyResend ==
    /\ cpc = "resend"
    /\ \E reply \in LegacyReplies :
         /\ requests' = Append(requests, Request(cdata, csrf_token, "resend", LegacyGroupId(version, cdata,
                                     client_group_id, client_user_id)))
         /\ responses' = Append(responses, reply)
         /\ Finish(LegacyOutcome(version, phase, UploadImageRaw(reply)),
                   LegacyRejection(reply))
    /\ UNCHANGED <<retry_count, polls, poll_sleeps, csrf_token, creates, poll_reply, downloaded, download>>
    /\ UNCHANGED <<configVars, outputVars, treeVars, countVars, retryRest, debugVars, passVars>>

\* upload_image_inner: create_with_contents, with the client's creator in
\* the creation context. upload_image_with_preferred_api of roblox_web_api
\* returns ApiKeyNeedsCreatorId before that when the client has none.
CloudCreate ==
    /\ cpc = "create"
    /\ IF version = "roblox_web_api"
          /\ ClientCreator(client_group_id, client_user_id) = None
       THEN /\ Finish(CloudOutcome(version, phase, ClientErr(ApiKeyNeedsCreatorId)), FALSE)
            /\ UNCHANGED <<requests, creates>>
       ELSE \E reply \in CloudCreateReplies :
              /\ requests' = Append(requests,
                     Request(cdata, "none", "upload",
                             ClientCreator(client_group_id, client_user_id)))
              /\ creates' = Append(creates,
                     [name |-> cdata.name, accepted |-> Accepted(reply)])
              /\ IF OperationId(reply) = ClientPoll
                 THEN /\ cpc' = "poll"
                      /\ UNCHANGED <<phase, cdata, cresult, attempt_log, rpc, mod_retries>>
                 ELSE Finish(CloudOutcome(version, phase, OperationId(reply)),
                             CloudRejection(reply))
    /\ retry_count' = 0
    /\ polls' = 0
    /\ poll_sleeps' = <<>>
    /\ UNCHANGED <<csrf_token, responses, poll_reply, downloaded, download>>
    /\ UNCHANGED <<configVars, outputVars, treeVars, countVars, retryRest, debugVars, passVars>>

\* upload_image_inner: one turn of the polling loop
CloudPoll ==
    /\ cpc = "poll"
    /\ \E reply \in CloudPollReplies :
         /\ polls' = polls + 1
         /\ IF PollAsset(reply, retry_count) = ClientPoll
            THEN /\ retry_count' = retry_count + 1
                 /\ poll_sleeps' = Append(poll_sleeps, PollSleep(retry_count + 1))
                 /\ UNCHANGED <<cpc, phase, cdata, cresult, attempt_log, rpc, mod_retries>>
            ELSE /\ Finish(CloudOutcome(version, phase, PollAsset(reply, retry_count)),
                           CloudRejection(reply))
                 /\ UNCHANGED <<retry_count, poll_sleeps>>
    /\ UNCHANGED <<requests, csrf_token, responses, creates, poll_reply, downloaded, download>>
    /\ UNCHANGED <<configVars, outputVars, treeVars, countVars, retryRest, debugVars, passVars>>

\* api::opencloud upload_image up to the loop: the creation context is
\* built, which panics when there is no user id to be had, and then the
\* POST that creates the asset is sent.
ApiCreateStep ==
    /\ cpc = "apicreate"
    /\ IF AssetCreatorOf(cdata, tarmac_user_id) = None
       THEN /\ Finish(ApiOpenCloudModerationRetry(ClientPanic), FALSE)
            /\ UNCHANGED requests
       ELSE \E reply \in ApiCreateReplies :
              /\ requests' = Append(requests,
                     Request(cdata, "none", "upload", AssetCreatorOf(cdata, tarmac_user_id)))
              /\ IF ApiCreate(reply) = ClientPoll
                 THEN /\ cpc' = "apipoll"
                      /\ UNCHANGED <<phase, cdata, cresult, attempt_log, rpc, mod_retries>>
                 ELSE Finish(ApiOpenCloudModerationRetry(ApiCreate(reply)),
                             ApiRejection(reply))
    /\ polls' = 0
    /\ UNCHANGED <<retry_count, poll_sleeps, csrf_token, responses, creates, poll_reply,
                   downloaded, download>>
    /\ UNCHANGED <<configVars, outputVars, treeVars, countVars, retryRest, debugVars, passVars>>

\* api::opencloud upload_image: one GET of its loop. The loop itself has
\* no counter: polls counts the GETs up to MaxPolls and stays there.
ApiPollStep ==
    /\ cpc = "apipoll"
    /\ \E reply \in ApiPollReplies :
         /\ polls' = IF polls < MaxPolls THEN polls + 1 ELSE polls
         /\ poll_reply' = Some(reply)
         /\ IF ApiPoll(reply) = ClientPoll
            THEN UNCHANGED <<cpc, phase, cdata, cresult, attempt_log, rpc, mod_retries>>
            ELSE Finish(ApiOpenCloudModerationRetry(ApiPoll(reply)), ApiRejection(reply))
    /\ UNCHANGED <<requests, retry_count, poll_sleeps, csrf_token, responses, creates, downloaded, download>>
    /\ UNCHANGED <<configVars, outputVars, treeVars, countVars, retryRest, debugVars, passVars>>

\* RobloxSyncBackend::upload matches on the client's result and returns.
RobloxReturn ==
    /\ rpc = "inner"
    /\ cpc = "ret"
    /\ inner_results' = Append(inner_results, RobloxSyncUpload(cresult))
    /\ rpc' = "match"
    /\ cpc' = "idle"
    /\ UNCHANGED <<index, data, calls, sleeps, result, upload_calls, mod_retries, passed, creates>>
    /\ UNCHANGED <<cdata, phase, retry_count, cresult, requests, attempt_log, polls,
                   poll_sleeps, csrf_token, responses, poll_reply, downloaded, download>>
    /\ UNCHANGED <<configVars, outputVars, treeVars, countVars, debugVars, passVars>>

\* RetryBackend::upload matches on the wrapped backend's result: on
\* RateLimited the loop goes on (and ends with RateLimited when the
\* attempts are used up), anything else is returned.
Match ==
    /\ rpc = "match"
    /\ IF IsRateLimited(Last(inner_results))
       THEN /\ index' = index + 1
            /\ IF LoopHead(index + 1, attempts) = "exhausted"
               THEN rpc' = "done" /\ result' = RateLimited
               ELSE rpc' = LoopHead(index + 1, attempts) /\ UNCHANGED result
       ELSE /\ result' = Last(inner_results)
            /\ rpc' = "done"
            /\ UNCHANGED index
    /\ attempts' = Attempts(attempts)
    /\ UNCHANGED <<data, calls, sleeps, inner_results, upload_calls, mod_retries, passed, creates>>
    /\ UNCHANGED <<max_retries, delay, backend, version, api_key, upload_to_group_id,
                   upload_to_user_id, tarmac_user_id, client_group_id, client_user_id,
                   client_token>>
    /\ UNCHANGED <<outputVars, treeVars, countVars, clientVars, debugVars, passVars>>

\* The upload call has returned (or the process is gone): its locals and
\* those of the client calls under it are dropped.
Returned ==
    /\ rpc' = IF rpc = "new_panicked" THEN rpc ELSE "idle"
    /\ index' = 0
    /\ data' = NoData
    /\ calls' = 0
    /\ sleeps' = 0
    /\ inner_results' = <<>>
    /\ result' = NoResult
    /\ mod_retries' = 0
    /\ passed' = <<>>
    /\ creates' = <<>>
    /\ responses' = <<>>
    /\ poll_reply' = None
    /\ downloaded' = None
    /\ download' = NoDownload
    /\ cpc' = "idle"
    /\ cdata' = NoImage
    /\ phase' = 1
    /\ retry_count' = 0
    /\ cresult' = NoClientResult
    /\ requests' = <<>>
    /\ attempt_log' = <<>>
    /\ polls' = 0
    /\ poll_sleeps' = <<>>

\* Change detection: every input is classified against the manifest read
\* at the start of the pass.
Detect ==
    /\ pass_pc = "start"
    /\ old_manifest' = manifest
    /\ class' = [i \in 1..Len(inputs) |-> Classify(inputs[i], manifest)]
    /\ inputs' = [i \in 1..Len(inputs) |-> Detected(inputs[i], manifest)]
    /\ changed' = ChangedFrom(inputs, manifest, 1)
    /\ cursor' = 0
    /\ outcome' = [i \in 1..Len(inputs) |-> NoResult]
    /\ client_outcome' = [i \in 1..Len(inputs) |-> NoClientResult]
    /\ pass_pc' = "dispatch"
    /\ UNCHANGED <<manifest, exit_code, pass_no, prev_exit>>
    /\ UNCHANGED <<configVars, outputVars, treeVars, countVars, retryVars, clientVars, debugVars>>

\* The dispatcher hands the next changed input to the backend.
Dispatch ==
    /\ pass_pc = "dispatch"
    /\ cursor < Len(changed)
    /\ rpc = "idle"
    /\ Upload(UploadInfoOf(inputs[changed[cursor + 1]]))

\* The backend has returned: the identifier is attached to the input, or
\* the failure is recorded; a failure of a halting backend ends the pass.
Attach ==
    /\ pass_pc = "dispatch"
    /\ rpc = "done"
    /\ LET i == changed[cursor + 1] IN
         /\ outcome' = [outcome EXCEPT ![i] = result]
         /\ client_outcome' = [client_outcome EXCEPT ![i] = cresult]
         /\ IF result.kind = "Ok"
            THEN /\ inputs' = [inputs EXCEPT ![i].id = Some(result.id)]
                 /\ UNCHANGED <<pass_pc, exit_code>>
            ELSE /\ UNCHANGED inputs
                 /\ IF backend \in HaltingBackends
                    THEN pass_pc' = "failed" /\ exit_code' = 1
                    ELSE UNCHANGED <<pass_pc, exit_code>>
    /\ cursor' = cursor + 1
    /\ Returned
    /\ UNCHANGED <<manifest, old_manifest, class, changed, pass_no, prev_exit>>
    /\ UNCHANGED <<configVars, outputVars, treeVars, countVars, upload_calls, csrf_token, debugVars>>

\* The client panicked: the process ends without writing the manifest.
Abort ==
    /\ pass_pc = "dispatch"
    /\ rpc = "panicked"
    /\ outcome' = [outcome EXCEPT ![changed[cursor + 1]] = SyncPanic]
    /\ pass_pc' = "failed"
    /\ exit_code' = 101
    /\ Returned
    /\ UNCHANGED <<inputs, manifest, old_manifest, class, changed, cursor, client_outcome,
                   pass_no, prev_exit>>
    /\ UNCHANGED <<configVars, outputVars, treeVars, countVars, upload_calls, csrf_token, debugVars>>

\* The end of the pass: the manifest is written once and the pass exits,
\* non-zero when an upload failed.
WriteManifest ==
    /\ pass_pc = "dispatch"
    /\ cursor = Len(changed)
    /\ manifest' = WrittenManifest(inputs, class, outcome, old_manifest)
    /\ exit_code' = IF \E i \in 1..Len(inputs) : Failed(class, outcome, i) THEN 1 ELSE 0
    /\ pass_pc' = "done"
    /\ UNCHANGED <<inputs, old_manifest, class, changed, cursor, outcome, client_outcome,
                   pass_no, prev_exit>>
    /\ UNCHANGED <<configVars, outputVars, treeVars, countVars, retryVars, clientVars, debugVars>>

\* The tool is run again on the same files: a new process with a new
\* backend, and the manifest the previous pass left. The same build given
\* the same max_retries panics in RetryBackend::new again.
Rerun ==
    /\ pass_pc \in {"done", "failed", "panicked"}
    /\ pass_no < MaxPasses
    /\ pass_no' = pass_no + 1
    /\ prev_exit' = exit_code
    /\ exit_code' = (IF rpc = "new_panicked" THEN 101 ELSE NoExit)
    /\ pass_pc' = (IF rpc = "new_panicked" THEN "panicked" ELSE "start")
    /\ inputs' = [i \in 1..Len(inputs) |-> [inputs[i] EXCEPT !.id = None, !.slice = None]]
    /\ class' = <<>>
    /\ changed' = <<>>
    /\ cursor' = 0
    /\ outcome' = <<>>
    /\ client_outcome' = <<>>
    /\ Returned
    /\ csrf_token' = "none"
    /\ last_id' = DebugSyncBackendNew
    /\ debug_log' = <<>>
    /\ UNCHANGED <<manifest, old_manifest, upload_calls, debug_files>>
    /\ UNCHANGED <<configVars, outputVars, treeVars, countVars>>

\* The first send of execute_with_csrf_retry in download_image, by a
\* client whose csrf_token is token and whose constructor made `fetches`
\* requests for it. A 403 that carries a token has the
\* token stored in the client the request goes through and the request
\* sent again; any other response is handed back, and a transport
\* failure is returned by `?`.
DownloadFirstSend(token, fetches) ==
    \E reply \in DownloadReplies :
        LET own == DownloadClient(version, api_key) = "self" IN
        IF NeedsCsrfRetry(reply)
        THEN /\ csrf_token' = IF own THEN reply.csrf ELSE csrf_token
             /\ download' = [pc |-> "resend",
                             token |-> IF own THEN "none" ELSE reply.csrf,
                             fetches |-> fetches,
                             gets |-> <<token>>]
             /\ downloaded' = None
        ELSE /\ csrf_token' = csrf_token
             /\ download' = [pc |-> "idle", token |-> "none",
                             fetches |-> fetches, gets |-> <<token>>]
             /\ downloaded' = Some(DownloadImageResult(reply))

\* download_image is called while no upload runs on the client, up to
\* its first exchange. A client that downloads itself sends the GET with
\* its csrf_token, and so does the RobloxApiClient::new(None) that
\* api/opencloud.rs makes for the call, which has none.
\* roblox_api/open_cloud.rs makes LegacyClient::new(self.credentials.clone())
\* on every call: when the credentials hold a token beside the API key the
\* first exchange is the POST of get_csrf_token, whose transport failure
\* panics before any GET; without a token the constructor sends nothing.
DownloadImage ==
    /\ backend = "Roblox"
    /\ rpc \in {"idle", "done"}
    /\ cpc = "idle"
    /\ download.pc = "idle"
    /\ IF DownloadClient(version, api_key) = "temporary" /\ version = "roblox_api"
          /\ client_token
       THEN \E fetch \in CsrfFetches :
              LET new == LegacyClientNew(RobloxCredentials(client_token, api_key,
                                                           client_user_id,
                                                           client_group_id), fetch)
              IN  /\ csrf_token' = csrf_token
                  /\ IF new.kind = "Panic"
                     THEN /\ download' = [pc |-> "panicked", token |-> "none",
                                          fetches |-> 1, gets |-> <<>>]
                          /\ downloaded' = Some(ClientPanic)
                     ELSE /\ download' = [pc |-> "built",
                                          token |-> IF new.client[1].csrf_token = None
                                                    THEN "none" ELSE "tok0",
                                          fetches |-> 1, gets |-> <<>>]
                          /\ downloaded' = None
       ELSE DownloadFirstSend(IF DownloadClient(version, api_key) = "self"
                              THEN csrf_token ELSE "none", 0)
    /\ UNCHANGED <<cpc, cdata, phase, retry_count, cresult, requests, attempt_log, polls,
                   poll_sleeps, responses, poll_reply>>
    /\ UNCHANGED <<configVars, outputVars, treeVars, countVars, retryVars, debugVars, passVars>>

\* The LegacyClient made for the call has fetched its CSRF token: the GET
\* of its download_image, the first send of execute_with_csrf_retry.
DownloadImageSend ==
    /\ download.pc = "built"
    /\ DownloadFirstSend(download.token, download.fetches)
    /\ UNCHANGED <<cpc, cdata, phase, retry_count, cresult, requests, attempt_log, polls,
                   poll_sleeps, responses, poll_reply>>
    /\ UNCHANGED <<configVars, outputVars, treeVars, countVars, retryVars, debugVars, passVars>>

\* The second send of execute_with_csrf_retry, with the token just stored:
\* its response is handed back whatever it is, and download_image copies
\* the body. A client made for the call is dropped with its token.
DownloadImageResend ==
    /\ download.pc = "resend"
    /\ \E reply \in DownloadReplies :
         /\ download' = [pc |-> "idle", token |-> "none", fetches |-> download.fetches,
                         gets |-> Append(download.gets,
                                         IF DownloadClient(version, api_key) = "self"
                                         THEN csrf_token ELSE download.token)]
         /\ downloaded' = Some(DownloadImageResult(reply))
    /\ UNCHANGED <<cpc, cdata, phase, retry_count, cresult, requests, attempt_log, polls,
                   poll_sleeps, csrf_token, responses, poll_reply>>
    /\ UNCHANGED <<configVars, outputVars, treeVars, countVars, retryVars, debugVars, passVars>>

Next ==
    \/ \E d \in UploadInfos : Upload(d)
    \/ DownloadImage
    \/ DownloadImageSend
    \/ DownloadImageResend
    \/ Sleep
    \/ CallCount
    \/ CallNone
    \/ CallDebug
    \/ CallRoblox
    \/ LegacySend
    \/ LegacyResend
    \/ CloudCreate
    \/ CloudPoll
    \/ ApiCreateStep
    \/ ApiPollStep
    \/ RobloxReturn
    \/ Match

Spec == Init /\ [][Next]_vars

\* Change detection on its own: one input of any shape against any entry.
ChangeInit ==
    /\ max_retries = 0
    /\ NewRetryBackend
    /\ backend = "None"
    /\ version = "none"
    /\ api_key = FALSE
    /\ results = <<>>
    /\ csrf_token = "none"
    /\ NoCreatorIds
    /\ Idle
    /\ NoTree
    /\ NoOutput
    /\ \E x \in ProbeInputs, e \in ProbeEntries :
         /\ inputs = <<x>>
         /\ manifest = [EmptyManifest EXCEPT ![x.name] = e]
    /\ old_manifest = EmptyManifest
    /\ pass_pc = "start"
    /\ class = <<>>
    /\ changed = <<>>
    /\ cursor = 0
    /\ outcome = <<>>
    /\ client_outcome = <<>>
    /\ exit_code = NoExit
    /\ pass_no = 1
    /\ prev_exit = NoExit

ChangeNext == Detect

ChangeSpec == ChangeInit /\ [][ChangeNext]_vars

\* One turn of parse_root_folder's loop over the inputs; after the last
\* one root_folder is returned.
ParseStep ==
    /\ tree_pc = "loop"
    /\ root_folder' = InsertInput(root_folder, tree_inputs[tree_pos])
    /\ tree_pos' = tree_pos + 1
    /\ tree_pc' = IF root_folder'.panic THEN "panicked"
                  ELSE IF tree_pos = Len(tree_inputs) THEN "done"
                  ELSE "loop"
    /\ UNCHANGED tree_inputs
    /\ UNCHANGED <<configVars, outputVars, countVars, retryVars, clientVars, debugVars, passVars>>

\* parse_root_folder on any slice of the inputs under test.
TreeInit ==
    /\ max_retries = 0
    /\ NewRetryBackend
    /\ backend = "None"
    /\ version = "none"
    /\ api_key = FALSE
    /\ results = <<>>
    /\ csrf_token = "none"
    /\ NoCreatorIds
    /\ Idle
    /\ NoPass
    /\ tree_inputs \in TreeLists
    /\ tree_pos = 1
    /\ root_folder = EmptyTree
    /\ tree_pc = IF tree_inputs = <<>> THEN "done" ELSE "loop"
    /\ NoOutput

TreeNext == ParseStep

TreeSpec == TreeInit /\ [][TreeNext]_vars

\* Where the stream stands after a call: a panic ends its use; a call that
\* returned Err leaves it in use, and "failed" keeps that some call on it
\* has returned Err.
AfterCall(pc, s) ==
    IF s.panic THEN "panicked" ELSE IF s.error THEN "failed" ELSE pc

\* A write_str call on the stream; the wrapped writer may refuse one of the
\* writes it is handed.
StreamWrite ==
    /\ ts_pc \in {"open", "failed"}
    /\ ts_calls < MaxStreamCalls
    /\ \E value \in Texts, fail_at \in 0..MaxWriterCalls :
           /\ stream' = Leave(WriteStr(Enter(stream, fail_at), value))
           /\ ts_value' = value
    /\ ts_pc' = AfterCall(ts_pc, stream')
    /\ ts_op' = "write_str"
    /\ ts_calls' = ts_calls + 1
    /\ UNCHANGED <<ts_module, ts_prop, ts_node, ts_renders>>
    /\ UNCHANGED <<configVars, countVars, retryVars, clientVars, debugVars, passVars,
                   treeVars, localVars, ctorVars>>

\* An indent call.
StreamIndent ==
    /\ ts_pc \in {"open", "failed"}
    /\ ts_calls < MaxStreamCalls
    /\ stream' = Leave(Indent(Enter(stream, 0)))
    /\ ts_op' = "indent"
    /\ ts_calls' = ts_calls + 1
    /\ UNCHANGED <<ts_pc, ts_module, ts_value, ts_prop, ts_node, ts_renders>>
    /\ UNCHANGED <<configVars, countVars, retryVars, clientVars, debugVars, passVars,
                   treeVars, localVars, ctorVars>>

\* An unindent call; it panics at level 0.
StreamUnindent ==
    /\ ts_pc \in {"open", "failed"}
    /\ ts_calls < MaxStreamCalls
    /\ stream' = Leave(Unindent(Enter(stream, 0)))
    /\ ts_pc' = AfterCall(ts_pc, stream')
    /\ ts_op' = "unindent"
    /\ ts_calls' = ts_calls + 1
    /\ UNCHANGED <<ts_module, ts_value, ts_prop, ts_node, ts_renders>>
    /\ UNCHANGED <<configVars, countVars, retryVars, clientVars, debugVars, passVars,
                   treeVars, localVars, ctorVars>>

\* A PropertySignature is rendered on the stream.
RenderProperty ==
    /\ ts_pc \in {"open", "failed"}
    /\ ts_calls < MaxStreamCalls
    /\ ts_renders < MaxRenderings
    /\ \E property \in Properties, fail_at \in 0..MaxWriterCalls :
           /\ stream' = Leave(PropertySignatureFmtTs(ts_module, Enter(stream, fail_at),
                                                     property))
           /\ ts_prop' = Some(property)
    /\ ts_pc' = AfterCall(ts_pc, stream')
    /\ ts_op' = "fmt_ts"
    /\ ts_calls' = ts_calls + 1
    /\ ts_renders' = ts_renders + 1
    /\ UNCHANGED <<ts_module, ts_value, ts_node>>
    /\ UNCHANGED <<configVars, countVars, retryVars, clientVars, debugVars, passVars,
                   treeVars, localVars, ctorVars>>

\* A Statement is rendered on the stream.
RenderStatement ==
    /\ ts_pc \in {"open", "failed"}
    /\ ts_calls < MaxStreamCalls
    /\ ts_renders < MaxRenderings
    /\ \E statement \in Statements(ts_module), fail_at \in 0..MaxWriterCalls :
           /\ stream' = Leave(StatementFmtTs(ts_module, Enter(stream, fail_at), statement))
           /\ ts_node' = Some(statement)
    /\ ts_pc' = AfterCall(ts_pc, stream')
    /\ ts_op' = "statement"
    /\ ts_calls' = ts_calls + 1
    /\ ts_renders' = ts_renders + 1
    /\ UNCHANGED <<ts_module, ts_value, ts_prop>>
    /\ UNCHANGED <<configVars, countVars, retryVars, clientVars, debugVars, passVars,
                   treeVars, localVars, ctorVars>>

\* An Expression is rendered on the stream.
RenderExpression ==
    /\ ts_pc \in {"open", "failed"}
    /\ ts_calls < MaxStreamCalls
    /\ ts_renders < MaxRenderings
    /\ \E expression \in Expressions(ts_module), fail_at \in 0..MaxWriterCalls :
           /\ stream' = Leave(ExpressionFmtTs(ts_module, Enter(stream, fail_at),
                                              expression))
           /\ ts_node' = Some(expression)
    /\ ts_pc' = AfterCall(ts_pc, stream')
    /\ ts_op' = "expression"
    /\ ts_calls' = ts_calls + 1
    /\ ts_renders' = ts_renders + 1
    /\ UNCHANGED <<ts_module, ts_value, ts_prop>>
    /\ UNCHANGED <<configVars, countVars, retryVars, clientVars, debugVars, passVars,
                   treeVars, localVars, ctorVars>>

\* A new TSStream of either module, over an empty writer.
StreamInit ==
    /\ max_retries = 0
    /\ NewRetryBackend
    /\ backend = "None"
    /\ version = "none"
    /\ api_key = FALSE
    /\ results = <<>>
    /\ csrf_token = "none"
    /\ NoCreatorIds
    /\ Idle
    /\ NoPass
    /\ NoTree
    /\ ts_pc = "open"
    /\ ts_module \in Modules
    /\ stream = TSStreamNew(<<>>)
    /\ ts_op = "none"
    /\ ts_value = <<>>
    /\ ts_calls = 0
    /\ ts_renders = 0
    /\ ts_prop = None
    /\ ts_node = None
    /\ NoLocal
    /\ NoConstructor

StreamNext ==
    \/ StreamWrite
    \/ StreamIndent
    \/ StreamUnindent
    \/ RenderProperty
    \/ RenderStatement
    \/ RenderExpression

StreamSpec == StreamInit /\ [][StreamNext]_vars


\* An upload on the LocalSyncBackend.
LocalUpload ==
    /\ local_pc = "open"
    /\ local_calls < MaxLocalUploads
    /\ \E d \in LocalUploads : \E fs \in FsOutcomes(d.contents) :
           LET out == LocalSyncUpload(content_path, scope, d, fs)
           IN  /\ local_data' = Some(d)
               /\ local_result' = out.result
               /\ local_files' =
                      IF out.file = None THEN local_files
                      ELSE { f \in local_files : f.path # out.file[1].path }
                               \cup {out.file[1]}
    /\ local_calls' = local_calls + 1
    /\ UNCHANGED <<local_pc, content_path, scope, asset_id, rendered>>
    /\ UNCHANGED <<configVars, countVars, retryVars, clientVars, debugVars, passVars,
                   treeVars, streamVars, ctorVars>>

\* An AssetId is formatted: one of the ids under test or the one the last
\* upload returned.
FormatAssetId ==
    /\ local_pc = "open"
    /\ \E id \in AssetIds \cup (IF local_result.kind = "Ok" THEN {local_result.id} ELSE {}) :
           /\ asset_id' = Some(id)
           /\ rendered' = AssetIdDisplay(id)
    /\ UNCHANGED <<local_pc, content_path, scope, local_files, local_data, local_result,
                   local_calls>>
    /\ UNCHANGED <<configVars, countVars, retryVars, clientVars, debugVars, passVars,
                   treeVars, streamVars, ctorVars>>

\* A LocalSyncBackend over Studio's content folder, with any scope.
LocalInit ==
    /\ max_retries = 0
    /\ NewRetryBackend
    /\ backend = "None"
    /\ version = "none"
    /\ api_key = FALSE
    /\ results = <<>>
    /\ csrf_token = "none"
    /\ NoCreatorIds
    /\ Idle
    /\ NoPass
    /\ NoTree
    /\ NoStream
    /\ local_pc = "open"
    /\ content_path \in ContentPaths
    /\ scope \in Scopes
    /\ local_files = {}
    /\ local_data = None
    /\ local_result = NoResult
    /\ local_calls = 0
    /\ asset_id = None
    /\ rendered = None
    /\ NoConstructor

LocalNext == LocalUpload \/ FormatAssetId

LocalSpec == LocalInit /\ [][LocalNext]_vars


\* The constructor runs on the credentials.
ConstructClient ==
    /\ constructor # "none"
    /\ built = NotBuilt
    /\ \E csrf \in CsrfFetches : built' = Construct(constructor, credentials, csrf)
    /\ UNCHANGED <<constructor, credentials, client_uploads>>
    /\ UNCHANGED <<configVars, countVars, retryVars, clientVars, debugVars, passVars,
                   treeVars, streamVars, localVars>>

\* An upload through the client: upload_image_with_moderation_retry takes
\* the client the constructor returned.
UseClient ==
    /\ built.kind = "Ok"
    /\ client_uploads < MaxUploads
    /\ client_uploads' = client_uploads + 1
    /\ UNCHANGED <<constructor, credentials, built>>
    /\ UNCHANGED <<configVars, countVars, retryVars, clientVars, debugVars, passVars,
                   treeVars, streamVars, localVars>>

\* Either constructor, about to be called with any credentials.
ConstructorInit ==
    /\ max_retries = 0
    /\ NewRetryBackend
    /\ backend = "None"
    /\ version = "none"
    /\ api_key = FALSE
    /\ results = <<>>
    /\ csrf_token = "none"
    /\ NoCreatorIds
    /\ Idle
    /\ NoPass
    /\ NoTree
    /\ NoStream
    /\ NoLocal
    /\ constructor \in Constructors
    /\ credentials \in Credentials
    /\ built = NotBuilt
    /\ client_uploads = 0

ConstructorNext == ConstructClient \/ UseClient

ConstructorSpec == ConstructorInit /\ [][ConstructorNext]_vars


\* A sync pass, and the passes after it, with a real backend. When
\* RetryBackend::new panicked the process is gone before the pass starts.
SyncInit ==
    /\ max_retries \in (0..MaxRetriesBound) \cup {USIZE_MAX}
    /\ NewRetryBackend
    /\ \/ /\ backend = "Roblox"
          /\ version \in Versions
          /\ api_key \in BOOLEAN
       \/ /\ backend \in {"None", "Debug"}
          /\ version = "none"
          /\ api_key = FALSE
    /\ results = <<>>
    /\ csrf_token = "none"
    /\ upload_to_group_id = None
    /\ upload_to_user_id \in (IF version = "api" THEN UserIds ELSE {None})
    /\ tarmac_user_id = None
    /\ client_group_id = None
    /\ client_token = (backend = "Roblox" /\ ~api_key)
    /\ client_user_id = (IF version \in {"roblox_api", "roblox_web_api"} /\ api_key
                         THEN Some(7) ELSE None)
    /\ Idle
    /\ NoTree
    /\ NoOutput
    /\ inputs \in InputLists
    /\ manifest \in ManifestsFor(inputs)
    /\ old_manifest = EmptyManifest
    /\ pass_pc = (IF rpc = "new_panicked" THEN "panicked" ELSE "start")
    /\ class = <<>>
    /\ changed = <<>>
    /\ cursor = 0
    /\ outcome = <<>>
    /\ client_outcome = <<>>
    /\ exit_code = (IF rpc = "new_panicked" THEN 101 ELSE NoExit)
    /\ pass_no = 1
    /\ prev_exit = NoExit

SyncNext ==
    \/ Detect
    \/ Dispatch
    \/ Sleep
    \/ CallNone
    \/ CallDebug
    \/ CallRoblox
    \/ LegacySend
    \/ LegacyResend
    \/ CloudCreate
    \/ CloudPoll
    \/ ApiCreateStep
    \/ ApiPollStep
    \/ RobloxReturn
    \/ Match
    \/ Attach
    \/ Abort
    \/ WriteManifest
    \/ Rerun

SyncSpec == SyncInit /\ [][SyncNext]_vars


(* ------------------------------ properties ----------------------------- *)

AllRateLimited(rs) == \A i \in DOMAIN rs : rs[i] = RateLimited

\* count <= n + 1, count < n + 1 and count = n + 1 for a usize n and its
\* successor in the integers: usize::MAX + 1 is 2^64, which no count of
\* the model comes near.
AtMostSucc(count, n) == n = USIZE_MAX \/ count <= n + 1
BelowSucc(count, n) == n = USIZE_MAX \/ count < n + 1
IsSucc(count, n) == n # USIZE_MAX /\ count = n + 1

\* max_retries + 1 fits a usize
BelowMax == max_retries # USIZE_MAX

\* RetryBackend::new was given usize::MAX in a build without overflow
\* checks, and an upload returned RateLimited without an attempt.
UploadWithoutAttempt ==
    /\ max_retries = USIZE_MAX
    /\ attempts = 0
    /\ rpc = "done"
    /\ calls = 0
    /\ sleeps = 0
    /\ inner_results = <<>>
    /\ result = RateLimited

\* RetryBackend::new was given usize::MAX in a build with overflow checks.
ConstructorPanicked == max_retries = USIZE_MAX /\ rpc = "new_panicked"

\* C1: for every max_retries n >= 0 one RetryBackend::upload call invokes
\* the wrapped backend at least once and at most n + 1 times.
C1_CallsWithinBudget ==
    /\ AtMostSucc(calls, max_retries)
    /\ rpc \in {"done", "panicked"} => calls >= 1

\* With max_retries below usize::MAX the calls are within the budget.
CallsWithinBudgetBelowMax == BelowMax => C1_CallsWithinBudget

\* C2: only RateLimited is retried. Every result of the wrapped backend but
\* the last is RateLimited, and when the last one is not RateLimited it is
\* the result returned, after exactly (number of RateLimited results) + 1
\* calls.
C2_RetryOnlyOnRateLimited ==
    /\ \A i \in 1..(Len(inner_results) - 1) : inner_results[i] = RateLimited
    /\ (rpc = "done" /\ inner_results # <<>> /\ Last(inner_results) # RateLimited)
         => /\ result = Last(inner_results)
            /\ calls = Len(inner_results)

C2_Witness ==
    /\ rpc = "done"
    /\ Len(inner_results) = 3
    /\ inner_results[1] = RateLimited /\ inner_results[2] = RateLimited
    /\ result.kind = "Ok"
    /\ calls = 3

\* C3: when every attempt is answered RateLimited, RetryBackend::upload
\* with max_retries n calls the wrapped backend exactly n + 1 times and
\* then returns RateLimited, never another error and never a success.
C3_ExhaustionIsRateLimited ==
    (rpc = "done" /\ AllRateLimited(inner_results))
        => /\ IsSucc(calls, max_retries)
           /\ IsSucc(Len(inner_results), max_retries)
           /\ result = SyncErr("RateLimited")

\* With max_retries below usize::MAX exhaustion is as C3 says.
ExhaustionIsRateLimitedBelowMax == BelowMax => C3_ExhaustionIsRateLimited

\* C4: with max_retries = 0 the decorator is the wrapped backend: one call,
\* no sleep, and the wrapped backend's result is the result returned.
C4_ZeroRetriesIsInner ==
    max_retries = 0
        => /\ sleeps = 0
           /\ calls <= 1
           /\ rpc = "done" => /\ calls = 1
                              /\ Len(inner_results) = 1
                              /\ result = inner_results[1]
           /\ (backend = "Count" /\ rpc \in {"idle", "done"}) => counter = upload_calls

C4_Witness ==
    /\ max_retries = 0
    /\ rpc = "done"
    /\ calls = 1
    /\ sleeps = 0
    /\ result = SyncErr("RateLimited")

\* C5: the thread sleeps once before every attempt but the first and never
\* after the last: the sleeps number one less than the calls once an
\* attempt is under way or over, a sleep leads to the call position, and
\* from the call position the next step is the attempt.
C5_SleepCount ==
    /\ rpc = "sleep" => (index >= 1 /\ sleeps = index - 1 /\ calls = index)
    /\ rpc = "call" => (sleeps = index /\ calls = index)
    /\ rpc \in {"inner", "match", "done", "panicked"} => sleeps = calls - 1

C5_SleepBetweenAttempts ==
    /\ []C5_SleepCount
    /\ [][/\ (sleeps' = sleeps + 1) => (rpc = "sleep" /\ rpc' = "call")
          /\ (rpc = "call") => (calls' = calls + 1 /\ sleeps' = sleeps)]_vars

\* With max_retries below usize::MAX the sleeps are as C5 says.
SleepBetweenAttemptsBelowMax ==
    /\ [](BelowMax => C5_SleepCount)
    /\ [][/\ (sleeps' = sleeps + 1) => (rpc = "sleep" /\ rpc' = "call")
          /\ (rpc = "call") => (calls' = calls + 1 /\ sleeps' = sleeps)]_vars


\* C6: RobloxSyncBackend::upload returns RateLimited exactly when the
\* client's result is a ResponseError with status 429, wraps every other
\* client error in RobloxError, and returns a client success as
\* AssetId::Id(backing_asset_id).
C6_RobloxResultMapping ==
    (backend = "Roblox" /\ rpc = "match") =>
        LET r == Last(inner_results)
            is429 == /\ cresult.kind = "Err"
                     /\ cresult.err.tag = "ResponseError"
                     /\ cresult.err.status = 429
        IN /\ (r = RateLimited) <=> is429
           /\ (cresult.kind = "Err" /\ ~is429) => r = RobloxError(cresult.err)
           /\ cresult.kind = "Ok" => r = SyncOk(cresult.backing_asset_id)
           /\ cresult.kind \in {"Ok", "Err"}

C6_Witness ==
    /\ backend = "Roblox"
    /\ rpc = "match"
    /\ cresult = ClientErr(ResponseError(429, BodyOther))
    /\ Last(inner_results) = RateLimited

UploadRequests == SelectSeq(requests, LAMBDA r : r.kind = "upload")

\* C7: when the service rejects an upload for its name,
\* upload_image_with_moderation_retry uploads exactly once more, under the
\* name "image" with the same image data and description, and never a third
\* time, whichever client is in use.
C7_ModerationRetryOnce ==
    /\ Len(attempt_log) <= 2
    /\ (backend = "Roblox" /\ cpc = "ret" /\ attempt_log # <<>> /\ attempt_log[1].rejected)
         => /\ Len(attempt_log) = 2
            /\ Len(UploadRequests) = 2
            /\ UploadRequests[2].name = "image"
            /\ UploadRequests[2].image_data = UploadRequests[1].image_data
            /\ UploadRequests[2].description = UploadRequests[1].description

RetryFailed ==
    /\ backend = "Roblox"
    /\ rpc = "match"
    /\ Len(attempt_log) = 2
    /\ attempt_log[2].outcome.kind = "Err"

\* C8 as claimed: a failed generic-name retry reaches the caller as the
\* ApiError outcome and as nothing else.
C8_RetryFailureIsApiError ==
    RetryFailed => /\ Last(inner_results).err = "RobloxError"
                   /\ Last(inner_results).source.tag = "ApiError"

\* C8 as amended: a failed generic-name retry is never a success and is not
\* followed by a third upload; the caller gets the retry's own error,
\* as RateLimited when it is a ResponseError with status 429 and wrapped in
\* RobloxError otherwise.
C8_RetryFailureIsReturned ==
    /\ Len(attempt_log) <= 2
    /\ RetryFailed =>
         LET e == attempt_log[2].outcome.err
         IN /\ cresult = ClientErr(e)
            /\ Last(inner_results) =
                 IF e.tag = "ResponseError" /\ e.status = 429
                 THEN RateLimited
                 ELSE RobloxError(e)

C8_Witness ==
    /\ RetryFailed
    /\ attempt_log[1].rejected
    /\ Last(inner_results) = RateLimited

\* C9: a moderation retry uses none of the retry budget. Over the Roblox
\* backend the calls of the wrapped backend are counted by the loop index
\* alone, at most one generic-name upload happens per call, and when every
\* call ends rate limited all max_retries + 1 calls are made, however many
\* of them uploaded a second time.
C9_ModerationOutsideBudget ==
    backend = "Roblox" =>
        /\ rpc \in {"inner", "match"} => calls = index + 1
        /\ mod_retries <= calls
        /\ (rpc = "done" /\ \A i \in DOMAIN inner_results : inner_results[i] = RateLimited)
             => IsSucc(calls, max_retries)

\* With max_retries below usize::MAX the budget is as C9 says.
ModerationOutsideBudgetBelowMax == BelowMax => C9_ModerationOutsideBudget

\* Every one of the max_retries + 1 >= 2 attempts uploaded a second time
\* under the generic name, and the call ended rate limited.
EveryAttemptModerated ==
    /\ backend = "Roblox"
    /\ rpc = "done"
    /\ max_retries >= 1
    /\ calls = max_retries + 1
    /\ mod_retries = calls
    /\ result = RateLimited

\* C10: a failed asset resolution is never taken for a rate limit. The sync
\* backend returns it as RobloxError(AssetGetFailed), RetryBackend returns
\* that error and calls the wrapped backend no more.
C10_AssetGetFailedNotRetried ==
    cresult = ClientErr(AssetGetFailed) =>
        /\ rpc \in {"inner", "match", "done"}
        /\ rpc \in {"match", "done"}
             => /\ Last(inner_results) = RobloxError(AssetGetFailed)
                /\ calls = Len(inner_results)
        /\ rpc = "done" => result = RobloxError(AssetGetFailed)

C10_Witness ==
    /\ rpc = "done"
    /\ result = RobloxError(AssetGetFailed)
    /\ max_retries >= 1
    /\ calls = 1
    /\ polls = MAX_RETRIES + 2

\* C11: NoneSyncBackend::upload fails with Error::NoneBackend for every
\* input and in every state and has no side effect; behind a RetryBackend
\* with any max_retries it is called exactly once per upload, without a
\* sleep, and the upload returns that NoneBackend error.
C11_NoneBackendFailsOnce ==
    backend = "None" =>
        /\ \A i \in 1..Len(inner_results) : inner_results[i] = NoneBackend
        /\ calls <= 1
        /\ sleeps = 0
        /\ (rpc = "done" => calls = 1 /\ result = NoneBackend)
        /\ counter = 0
        /\ last_id = DebugSyncBackendNew
        /\ debug_files = <<>>
        /\ requests = <<>>
        /\ cpc = "idle"

\* With max_retries below usize::MAX the None backend is as C11 says.
NoneBackendFailsOnceBelowMax == BelowMax => C11_NoneBackendFailsOnce

\* The uploads that succeeded among the first i made on the
\* DebugSyncBackend.
Successes(i) == { j \in 1..i : debug_log[j].kind = "Ok" }

\* C12 as claimed: the k-th successful upload of a DebugSyncBackend returns
\* AssetId::Id(k), k counting the successful uploads only.
C12_KthSuccessIsIdK ==
    backend = "Debug" =>
        \A i \in 1..Len(debug_log) :
            debug_log[i].kind = "Ok" => debug_log[i].id = Cardinality(Successes(i))

\* C12 as amended: the k-th upload call on a DebugSyncBackend, when it
\* succeeds, returns AssetId::Id(k) and has written the file named k; a
\* call that fails on the file system uses up its id, so the ids of the
\* successful uploads increase strictly from at least 1.
C12_DebugIdIsCallNumber ==
    backend = "Debug" =>
        /\ last_id = Len(debug_log)
        /\ \A i \in 1..Len(debug_log) :
               debug_log[i].kind = "Ok" =>
                   /\ debug_log[i].id = i
                   /\ \E f \in 1..Len(debug_files) : debug_files[f].path = i
        /\ \A i, j \in 1..Len(debug_log) :
               (i < j /\ debug_log[i].kind = "Ok" /\ debug_log[j].kind = "Ok")
                   => (1 <= debug_log[i].id /\ debug_log[i].id < debug_log[j].id)

\* The first upload failed in the write, one byte of two in the file, and
\* the second succeeded with id 2.
C12_Witness ==
    /\ backend = "Debug"
    /\ debug_log = <<Io, SyncOk(2)>>
    /\ Len(debug_files) = 2
    /\ debug_files[1] = [path |-> 1, contents |-> <<1>>]
    /\ debug_files[2].path = 2

\* C13: an input is classified unchanged by is_unchanged_since_last_sync
\* exactly when its content hash equals the manifest entry's hash and its
\* config.packable equals the entry's packable flag, whatever its name,
\* path, DPI scale, id and slice and whatever the entry's id and slice.
C13_UnchangedIffHashAndPackable ==
    pass_pc = "dispatch" =>
        \A i \in 1..Len(inputs) :
            LET old == old_manifest[inputs[i].name] IN
            old.present =>
                (class[i] = "Unchanged"
                    <=> (inputs[i].hash = old.hash
                         /\ inputs[i].config.packable = old.packable))

\* An input with the hash of its entry and the other packable flag has been
\* classified changed.
C13_Witness ==
    /\ pass_pc = "dispatch"
    /\ Len(inputs) = 1
    /\ old_manifest[inputs[1].name].present
    /\ inputs[1].hash = old_manifest[inputs[1].name].hash
    /\ inputs[1].config.packable # old_manifest[inputs[1].name].packable
    /\ inputs[1].dpi_scale = 2
    /\ class[1] = "Changed"

\* C14: change detection is idempotent: after a pass that succeeded and
\* wrote the hash, packable flag and identifier of every input it processed,
\* detection on the same inputs against that manifest classifies no input as
\* changed and no upload is started.
C14_DetectionIdempotent ==
    (pass_no >= 2 /\ prev_exit = 0 /\ pass_pc # "start") =>
        /\ changed = <<>>
        /\ \A i \in 1..Len(inputs) : class[i] = "Unchanged"
        /\ rpc = "idle"
        /\ \A i \in 1..Len(inputs) : outcome[i] = NoResult

\* The second pass over two inputs the first pass uploaded has ended.
C14_Witness ==
    /\ pass_no = 2
    /\ prev_exit = 0
    /\ pass_pc = "done"
    /\ Len(inputs) = 2
    /\ upload_calls = 2
    /\ exit_code = 0
    /\ \A i \in 1..2 : class[i] = "Unchanged" /\ inputs[i].id # None

\* While an upload is under way it is the upload of the first changed input
\* not dealt with yet: that input and the changed inputs after it have no
\* identifier and no result, the ones before it have their result, and
\* every request sent carries its contents.
C15_OneInputAtATime ==
    (pass_pc = "dispatch" /\ rpc # "idle") =>
        /\ cursor < Len(changed)
        /\ data = UploadInfoOf(inputs[changed[cursor + 1]])
        /\ \A k \in (cursor + 1)..Len(changed) :
               inputs[changed[k]].id = None /\ outcome[changed[k]] = NoResult
        /\ \A k \in 1..cursor : outcome[changed[k]] # NoResult
        /\ \A r \in 1..Len(requests) :
               /\ requests[r].image_data = inputs[changed[cursor + 1]].contents
               /\ requests[r].name \in {inputs[changed[cursor + 1]].name, "image"}
        /\ \A k \in 1..(Len(changed) - 1) : changed[k] < changed[k + 1]

\* An input is dealt with only when its upload has returned, with every
\* attempt of the call made and a sleep between any two of them; the
\* result attached is the one returned, and an upload starts only for the
\* input whose turn it is.
C15_AttachAfterAttempts ==
    /\ (cursor' = cursor + 1 =>
           /\ rpc = "done"
           /\ calls = Len(inner_results)
           /\ sleeps = (IF calls = 0 THEN 0 ELSE calls - 1)
           /\ mod_retries <= calls
           /\ outcome'[changed[cursor + 1]] = result
           /\ (result.kind = "Ok" =>
                  inputs'[changed[cursor + 1]].id = Some(result.id)))
    /\ ((pass_pc = "dispatch" /\ rpc = "idle" /\ rpc' # "idle") =>
           /\ cursor' = cursor
           /\ data' = UploadInfoOf(inputs[changed[cursor + 1]]))

UploadFailed(i) ==
    /\ class[i] = "Changed"
    /\ \/ outcome[i].kind \in {"Err", "Panic"}
       \/ client_outcome[i].kind = "Err"

\* C16: a sync pass in which an input's upload failed never writes a
\* manifest that records success (a new entry) for that input, and the pass
\* ends with a non-zero exit code.
C16_FailedPassRecordsNoSuccess ==
    pass_pc \in {"dispatch", "done", "failed"} =>
        /\ \A i \in 1..Len(inputs) :
               UploadFailed(i) =>
                   ~ (/\ manifest[inputs[i].name].present
                      /\ manifest[inputs[i].name] # old_manifest[inputs[i].name])
        /\ (pass_pc \in {"done", "failed"} /\ \E i \in 1..Len(inputs) : UploadFailed(i))
               => exit_code \notin {0, NoExit}

\* A pass over two changed inputs has ended: the first upload failed with
\* an API error, the second succeeded and was recorded.
C16_Witness ==
    /\ pass_pc = "done"
    /\ pass_no = 1
    /\ Len(changed) = 2
    /\ outcome[1].kind = "Err"
    /\ outcome[1].source.tag = "ApiError"
    /\ outcome[2].kind = "Ok"
    /\ exit_code = 1
    /\ manifest[inputs[2].name].id = Some(outcome[2].id)
    /\ manifest[inputs[2].name] # old_manifest[inputs[2].name]

\* The errors of transport and protocol: no response, a response that
\* cannot be read, a missing operation path, an identifier that cannot be
\* parsed.
TransportTags ==
    {"Http", "BadResponseJson", "MissingOperationPath", "MalformedOperationPath",
     "MalformedAssetId", "RbxCloud"}

\* C17: when an input's upload fails with a transport or protocol error,
\* the manifest entry the input had before (hash, packable, identifier), or
\* its absence, stays exactly as it was.
C17_TransportErrorKeepsEntry ==
    pass_pc \in {"dispatch", "done", "failed"} =>
        \A i \in 1..Len(inputs) :
            (/\ class[i] = "Changed"
             /\ client_outcome[i].kind = "Err"
             /\ client_outcome[i].err.tag \in TransportTags)
                => manifest[inputs[i].name] = old_manifest[inputs[i].name]

\* The manifest has been written after an input with an entry of other
\* contents failed on an identifier that does not parse.
C17_Witness ==
    /\ pass_pc = "done"
    /\ pass_no = 1
    /\ Len(inputs) = 2
    /\ class[1] = "Changed"
    /\ outcome[1] = RobloxError(MalformedAssetId)
    /\ old_manifest[inputs[1].name].present
    /\ old_manifest[inputs[1].name].hash = "h0"
    /\ manifest[inputs[1].name] = old_manifest[inputs[1].name]
    /\ outcome[2].kind = "Ok"

\* C18: an input classified unchanged is never handed to the upload backend
\* and keeps the identifier of its manifest entry; an input classified
\* changed has no identifier until its upload has completed successfully,
\* and then it is the identifier that upload returned.
C18_UnchangedSkippedChangedPending ==
    pass_pc \in {"dispatch", "done", "failed"} =>
        \A i \in 1..Len(inputs) :
            /\ class[i] = "Unchanged" =>
                   /\ inputs[i].id = old_manifest[inputs[i].name].id
                   /\ inputs[i].id # None
                   /\ outcome[i] = NoResult
                   /\ \A k \in 1..Len(changed) : changed[k] # i
                   /\ data.name # inputs[i].name
            /\ (class[i] = "Changed" /\ inputs[i].id # None) =>
                   /\ outcome[i].kind = "Ok"
                   /\ inputs[i].id = Some(outcome[i].id)
                   /\ (backend = "Roblox" =>
                          /\ client_outcome[i].kind = "Ok"
                          /\ inputs[i].id = Some(client_outcome[i].backing_asset_id))

\* One input is unchanged and keeps identifier 5; the other, changed, has
\* been uploaded and still waits for nothing: it has the identifier 8 the
\* service returned.
C18_Witness ==
    /\ pass_pc = "dispatch"
    /\ pass_no = 1
    /\ Len(inputs) = 2
    /\ class[1] = "Unchanged"
    /\ inputs[1].id = Some(5)
    /\ class[2] = "Changed"
    /\ backend = "Roblox"
    /\ inputs[2].id = Some(8)
    /\ upload_calls = 1

\* Two codegen-eligible inputs among the first n with the same normalized
\* relative path and the same dpi_scale.
Collision(ins, n) ==
    \E i, j \in 1..n :
        /\ i # j
        /\ ins[i].config.codegen /\ ins[j].config.codegen
        /\ Segments(ins[i]) # None
        /\ Segments(ins[i]) # Some(<<>>)
        /\ Segments(ins[i]) = Segments(ins[j])
        /\ ins[i].dpi_scale = ins[j].dpi_scale

\* C19: codegen tree construction treats two codegen-eligible inputs with
\* the same normalized relative path and the same dpi_scale as a fatal
\* naming collision: construction aborts and never keeps just one of them.
C19_DuplicateIsFatal ==
    (tree_pc # "off" /\ Collision(tree_inputs, tree_pos - 1)) => root_folder.panic

\* The orderings of a sequence.
Orderings(s) ==
    { [i \in 1..Len(s) |-> s[q[i]]] :
        q \in { f \in [1..Len(s) -> 1..Len(s)] :
                  \A i, j \in 1..Len(s) : i # j => f[i] # f[j] } }

\* C20: codegen tree construction is insensitive to input order: every
\* ordering of the inputs gives parse_root_folder the same tree (the same
\* folders, leaves and dpi-keyed variants) or the same panic.
C20_OrderInsensitive ==
    tree_pc \in {"done", "panicked"} =>
        \A q \in Orderings(tree_inputs) : ParseRootFolder(q) = root_folder

\* Among inputs with no such collision the order does not matter: every
\* ordering gives the same tree or the same panic.
OrderInsensitiveWithoutCollision ==
    (tree_pc \in {"done", "panicked"} /\ ~ Collision(tree_inputs, Len(tree_inputs))) =>
        \A q \in Orderings(tree_inputs) : ParseRootFolder(q) = root_folder

\* The components of an input's relative path, None when its
\* extension-stripped path is not under its base path.
RelativeComponents(input) ==
    StripBasePath(SetExtensionEmpty(input.path_without_dpi_scale),
                  input.config.codegen_base_path)

\* Among components a..b of cs: the `..` ones, and the named ones.
ParentDirs(cs, a, b) == Cardinality({ k \in a..b : cs[k] = ".." })
NamedComponents(cs, a, b) == Cardinality({ k \in a..b : cs[k] \notin {".", ".."} })

\* Some `..` of cs comes when every segment before it is already removed.
Underflows(cs) ==
    \E k \in 1..Len(cs) : ParentDirs(cs, 1, k) > NamedComponents(cs, 1, k)

\* The named components of cs that no later `..` removes, in order: each
\* `..` removes the nearest named component before it that is still there.
Surviving(cs) ==
    LET keeps(j) == /\ cs[j] \notin {".", ".."}
                    /\ \A k \in (j + 1)..Len(cs) :
                           ParentDirs(cs, j + 1, k) <= NamedComponents(cs, j + 1, k)
        F[j \in 0..Len(cs)] ==
            IF j = 0 THEN <<>>
            ELSE IF keeps(j) THEN Append(F[j - 1], cs[j]) ELSE F[j - 1]
    IN  F[Len(cs)]

\* C21: while normalizing a relative path a `..` removes exactly the most
\* recently pushed segment when there is one, and aborts tree construction
\* when there is none; it is never ignored or clamped. For every codegen
\* input processed so far, a `..` with nothing to remove has panicked the
\* construction, and otherwise the input sits under the segments that are
\* left after each `..` removed the segment before it.
C21_ParentDirPopsOrAborts ==
    tree_pc # "off" =>
        \A i \in 1..(tree_pos - 1) :
            LET input == tree_inputs[i]
                rel == RelativeComponents(input)
            IN  (input.config.codegen /\ rel # None) =>
                    /\ Underflows(rel[1]) => root_folder.panic
                    /\ (~ Underflows(rel[1]) /\ ~ root_folder.panic
                            /\ Surviving(rel[1]) # <<>>) =>
                           \E v \in root_folder.variants :
                               v.path = Surviving(rel[1]) /\ v.dpi_scale = input.dpi_scale
                    /\ (~ Underflows(rel[1])) => Segments(input) = Some(Surviving(rel[1]))

\* ui/x/../b was placed at ui/b: its `..` removed x, the segment pushed
\* last, and the construction finished.
C21_Witness ==
    /\ tree_pc = "done"
    /\ \E i \in 1..Len(tree_inputs) :
           /\ tree_inputs[i].name = "ui/x/../b"
           /\ \E v \in root_folder.variants :
                  v.path = <<"ui", "b">> /\ v.input = tree_inputs[i]
    /\ ~ root_folder.panic

\* base is a leading run of whole components of path
RootedUnder(path, base) ==
    /\ Len(base) <= Len(path)
    /\ \A k \in 1..Len(base) : path[k] = base[k]

\* C22: codegen tree construction fails fast when the extension-stripped
\* path of a codegen input is not rooted under its config.codegen_base_path:
\* the whole construction aborts, whatever was placed before, and no tree
\* is returned.
C22_OutsideBasePathIsFatal ==
    tree_pc # "off" =>
        \A i \in 1..(tree_pos - 1) :
            LET input == tree_inputs[i]
            IN  (/\ input.config.codegen
                 /\ ~ RootedUnder(SetExtensionEmpty(input.path_without_dpi_scale),
                                  input.config.codegen_base_path)) =>
                    /\ tree_pc = "panicked"
                    /\ root_folder = PanicTree

\* An input outside its base path came second and aborted the construction
\* that had already placed the first input.
C22_Witness ==
    /\ tree_pc = "panicked"
    /\ tree_pos = 3
    /\ tree_inputs[1].name = "ui/b"
    /\ tree_inputs[2].name = "other"
    /\ root_folder.groups = {}

\* C30: after parse_root_folder returns, every input with config.codegen
\* true is in the tree exactly once, in the InputGroup its normalized
\* relative path names, keyed by its dpi_scale, with a Folder at every
\* earlier segment; no input with config.codegen false is in the tree.
C30_EveryCodegenInputPlacedOnce ==
    tree_pc = "done" =>
        \A i \in 1..Len(tree_inputs) :
            LET input == tree_inputs[i]
                held  == { v \in root_folder.variants : v.input = input }
            IN  IF input.config.codegen
                THEN /\ Cardinality(held) = 1
                     /\ \A v \in held :
                            /\ Some(v.path) = Segments(input)
                            /\ v.dpi_scale = input.dpi_scale
                            /\ v.path \in root_folder.groups
                            /\ \A k \in 1..(Len(v.path) - 1) :
                                   SubSeq(v.path, 1, k) \in root_folder.folders
                ELSE held = {}

\* Among inputs that do not collide and that have a name under their base
\* path, every codegen input is placed once and no other input is placed.
EveryNamedCodegenInputPlacedOnce ==
    (/\ tree_pc = "done"
     /\ ~ Collision(tree_inputs, Len(tree_inputs))
     /\ \A i \in 1..Len(tree_inputs) :
            tree_inputs[i].config.codegen => Segments(tree_inputs[i]) # Some(<<>>)) =>
        \A i \in 1..Len(tree_inputs) :
            LET input == tree_inputs[i]
                held  == { v \in root_folder.variants : v.input = input }
            IN  IF input.config.codegen
                THEN /\ Cardinality(held) = 1
                     /\ \A v \in held :
                            /\ Some(v.path) = Segments(input)
                            /\ v.dpi_scale = input.dpi_scale
                            /\ v.path \in root_folder.groups
                            /\ \A k \in 1..(Len(v.path) - 1) :
                                   SubSeq(v.path, 1, k) \in root_folder.folders
                ELSE held = {}

\* The tab characters a line starts with
LeadingTabs(line) ==
    Cardinality({ k \in 1..Len(line) : \A h \in 1..k : line[h] = "\t" })

\* The physical lines of a text
OutputLines(text) == SplitLines(text)

\* Lines of the output after a step that were still empty before it
BegunNow(before, after) ==
    { t \in 1..Len(after) :
        /\ after[t] # <<>>
        /\ t >= Len(before)
        /\ (t = Len(before) => before[t] = <<>>) }

\* C23 as stated: after a write_str call that returned Ok on a stream whose
\* wrapped writer has taken every write so far, every non-empty output line whose
\* first character the call wrote starts with exactly indent_level tab
\* characters, lines begun earlier are not indented again, and empty lines
\* carry nothing.
C23_WriteStepLinesStartWithLevelTabs ==
    (ts_op' = "write_str" /\ ts_calls' = ts_calls + 1 /\ ~ stream'.error
         /\ ts_pc = "open") =>
        LET before == OutputLines(stream.inner)
            after  == OutputLines(stream'.inner)
        IN  /\ Len(after) >= Len(before)
            /\ \A t \in 1..(Len(before) - 1) : after[t] = before[t]
            /\ before[Len(before)] # <<>> =>
                   /\ Len(after[Len(before)]) >= Len(before[Len(before)])
                   /\ LeadingTabs(after[Len(before)]) = LeadingTabs(before[Len(before)])
            /\ \A t \in BegunNow(before, after) :
                   LeadingTabs(after[t]) = stream.indent_level

C23_LinesStartWithLevelTabs == [][C23_WriteStepLinesStartWithLevelTabs]_vars

\* text begins with prefix
StartsWith(text, prefix) ==
    Len(text) >= Len(prefix) /\ SubSeq(text, 1, Len(prefix)) = prefix

\* C23, amended: on a stream whose wrapped writer has taken every write so
\* far, the stream writer inserts indentation exactly once per physical
\* output line. A write_str call leaves the earlier lines as they are,
\* appends the first piece of its text to the current line and starts one
\* line per further piece; a non-empty piece that begins a line is
\* preceded by exactly indent_level inserted tabs, a piece that continues a
\* line by none, and an empty piece by none. (Text that itself begins with
\* tabs keeps them after the inserted ones.) A call that returns Err
\* because the wrapped writer refused a write has written a prefix of
\* that.
C23_WriteStepIndentsOncePerLine ==
    (ts_op' = "write_str" /\ ts_calls' = ts_calls + 1 /\ ts_pc = "open") =>
        LET before == OutputLines(stream.inner)
            after  == OutputLines(stream'.inner)
            pieces == OutputLines(ts_value')
            n      == Len(before)
            Expected(j) ==
                LET base == IF j = 1 THEN before[n] ELSE <<>>
                IN  IF pieces[j] = <<>> THEN base
                    ELSE IF base = <<>>
                         THEN Repeat(stream.indent_level) \o pieces[j]
                         ELSE base \o pieces[j]
        IN  /\ \A t \in 1..(n - 1) : after[t] = before[t]
            /\ stream'.indent_level = stream.indent_level
            /\ ~ stream'.error =>
                   /\ Len(after) = n + Len(pieces) - 1
                   /\ \A j \in 1..Len(pieces) : after[n + j - 1] = Expected(j)
                   /\ stream'.is_start_of_line = (after[Len(after)] = <<>>)
            /\ stream'.error =>
                   /\ Len(after) \in n..(n + Len(pieces) - 1)
                   /\ \A j \in 1..(Len(after) - n) : after[n + j - 1] = Expected(j)
                   /\ StartsWith(Expected(Len(after) - n + 1), after[Len(after)])

C23_IndentsOncePerLine == [][C23_WriteStepIndentsOncePerLine]_vars

\* At level 1 a line was written by two write_str calls and carries one
\* tab, and the blank line after it carries none.
C23_Witness ==
    /\ ts_pc = "open"
    /\ stream.indent_level = 1
    /\ ts_op = "write_str"
    /\ ts_calls = 3
    /\ stream.inner = <<"\t", "x", "x", "\n", "\n", "\t", "x">>

\* A name that can stand bare as an object member: a letter followed by
\* letters and digits.
ValidIdentifier(name) ==
    /\ name # <<>>
    /\ name[1] \in {"a", "b", "T"}
    /\ \A k \in 1..Len(name) : name[k] \in {"a", "b", "T", "1"}

\* part occurs in text as a run of consecutive characters
Occurs(part, text) ==
    \E k \in 0..(Len(text) - Len(part)) : SubSeq(text, k + 1, k + Len(part)) = part

\* C24: a property signature rendered as an object member on a writer that
\* takes every write is rendered for
\* every property name, the empty name included, and a name that is not a
\* valid bare identifier is written bracketed and quoted: ["name"]: ...
C24_RenderedMemberIsBracketed ==
    (ts_op' = "fmt_ts" /\ ts_calls' = ts_calls + 1 /\ ~ stream'.error) =>
        LET property == ts_prop'[1]
            written == SubSeq(stream'.inner, Len(stream.inner) + 1, Len(stream'.inner))
        IN  /\ ~ stream'.panic
            /\ ~ ValidIdentifier(property.name) =>
                   Occurs(<<"[", "\"">> \o property.name \o <<"\"", "]", ":", " ">>, written)

C24_NonIdentifierNamesBracketed == [][C24_RenderedMemberIsBracketed]_vars

\* In typescript/ts_ast.rs every name but the empty one is rendered, and
\* bracketed and quoted when it is not a valid bare identifier.
NonEmptyNamesBracketed ==
    [][(ts_op' = "fmt_ts" /\ ts_calls' = ts_calls + 1 /\ ~ stream'.error
            /\ ts_module = "typescript/ts_ast" /\ ts_prop'[1].name # <<>>) =>
          C24_RenderedMemberIsBracketed]_vars

\* The variant a rendered asset id is read back as
VariantOf(text) ==
    IF StartsWith(text, <<"r", "b", "x", "a", "s", "s", "e", "t", "i", "d", ":", "/", "/">>)
    THEN "Id"
    ELSE IF StartsWith(text, <<"r", "b", "x", "a", "s", "s", "e", "t", ":", "/", "/">>)
         THEN "Path"
         ELSE "neither"

\* C25: AssetId rendering is unambiguous: the string rendered for an Id(n)
\* differs from the string rendered for every Path(p), two distinct numeric
\* ids render to distinct strings, and the variant can be read back from
\* the rendered string.
C25_RenderingUnambiguous ==
    (asset_id # None /\ rendered # None) =>
        /\ VariantOf(rendered[1]) = asset_id[1].kind
        /\ \A other \in AssetIds :
               (other.kind # asset_id[1].kind
                    \/ (other.kind = "Id" /\ other # asset_id[1])) =>
                   AssetIdDisplay(other) # rendered

\* The path `id://5`, chosen to look like an id, was rendered.
C25_Witness ==
    /\ asset_id = Some(AssetIdPath(<<"i", "d", ":", "/", "/", "5">>))
    /\ rendered = Some(<<"r", "b", "x", "a", "s", "s", "e", "t", ":", "/", "/",
                         "i", "d", ":", "/", "/", "5">>)

\* The path LocalSyncBackend::upload is expected to return
ExpectedAssetPath(sc, name) ==
    <<".", "t", "a", "r", "m", "a", "c", "/">>
        \o (IF sc = None THEN <<>> ELSE sc[1] \o <<"/">>)
        \o name \o <<".", "p", "n", "g">>

\* What C27 says of the last upload, when it succeeded
LocalUploadAsClaimed ==
    LET expected == ExpectedAssetPath(scope, local_data[1].name)
    IN  /\ local_result.id = AssetIdPath(expected)
        /\ ~ StartsWith(local_result.id.path, content_path)
        /\ \E f \in local_files :
               /\ f.path = content_path \o <<"/">> \o expected
               /\ f.contents = local_data[1].contents

\* C27: LocalSyncBackend::upload returns AssetId::Path of a relative path
\* derived only from the upload name and the optional scope:
\* .tarmac/<scope>/<name>.png with a scope and .tarmac/<name>.png without;
\* the returned path never includes the content directory, and the bytes
\* are written at content_path joined with that same relative path.
C27_LocalPathFromNameAndScope ==
    (local_data # None /\ local_result.kind = "Ok") => LocalUploadAsClaimed

\* With a scope and a name that have no root the upload is as C27 says.
LocalPathFromRelativeNameAndScope ==
    (/\ local_data # None
     /\ local_result.kind = "Ok"
     /\ ~ HasRoot(local_data[1].name)
     /\ scope # None => ~ HasRoot(scope[1])) => LocalUploadAsClaimed

\* The three faults of the credentials
NoAuth(c) == ~ c.token /\ ~ c.api_key
BothIds(c) == c.group_id # None /\ c.user_id # None
KeyWithoutId(c) == c.api_key /\ c.group_id = None /\ c.user_id = None

\* C26 as stated: client construction fails with MissingAuth when neither a
\* token nor an API key is given, with AmbiguousCreatorType when both a
\* group id and a user id are given, and with ApiKeyNeedsCreatorId when an
\* API key is given with neither id; no client is returned and no upload is
\* made.
C26_BadIdentityRejected ==
    built # NotBuilt =>
        /\ NoAuth(credentials) => built = Refused("MissingAuth")
        /\ BothIds(credentials) => built = Refused("AmbiguousCreatorType")
        /\ KeyWithoutId(credentials) => built = Refused("ApiKeyNeedsCreatorId")
        /\ built.kind = "Err" => (built.client = None /\ client_uploads = 0)

\* What does hold of the two constructors: authentication is looked at
\* first (MissingAuth whatever the ids are), and when a token or an API key
\* is given the other two faults are refused as C26 says, or the
\* constructor has panicked in get_csrf_token; nothing faulty is built.
BadIdentityRejectedAuthFirstOrPanicked ==
    built # NotBuilt =>
        /\ NoAuth(credentials) => built = Refused("MissingAuth")
        /\ (BothIds(credentials) /\ ~ NoAuth(credentials)) =>
               built \in {Refused("AmbiguousCreatorType"), ConstructPanic}
        /\ KeyWithoutId(credentials) =>
               built \in {Refused("ApiKeyNeedsCreatorId"), ConstructPanic}
        /\ built.kind # "Ok" => (built.client = None /\ client_uploads = 0)
        /\ built = ConstructPanic => credentials.token

\* RobloxApiClient::new was given a token, an API key and both ids, and
\* panicked where AmbiguousCreatorType is due.
PanickedOnBothIds ==
    /\ constructor = "RobloxApiClient::new"
    /\ credentials = RobloxCredentials(TRUE, TRUE, Some(7), Some(9))
    /\ built = ConstructPanic

\* The client polls an operation of the Open Cloud service.
PollingClient ==
    /\ version \in {"roblox_api", "roblox_web_api"}
    /\ Transport(version, api_key) = "cloud"

\* C28: after an asset is submitted through the Open Cloud client the
\* operation is polled in a loop that always ends: with the asset id a poll
\* yields, with the error a poll fails with, and otherwise after at most
\* MAX_RETRIES = 5 retries of the first poll (at most 6 polls in all) with
\* AssetGetFailed.
C28_PollingWithinMaxRetries ==
    PollingClient =>
        /\ polls <= 5 + 1
        /\ Len(poll_sleeps) <= 5
        /\ retry_count <= 5

\* The loop does end: after at most seven polls and six sleeps.
PollingEndsAfterSevenPolls ==
    PollingClient =>
        /\ polls <= 7
        /\ Len(poll_sleeps) <= 6
        /\ (cpc = "poll" => polls <= 6)

\* C29: in the operation-polling loop the sleep taken before the k-th
\* re-poll lasts 50 ms * k^2 (50, 200, 450, ...); no sleep precedes the
\* first poll and none follows the poll after which the loop ends.
C29_QuadraticBackoff ==
    PollingClient =>
        /\ \A k \in 1..Len(poll_sleeps) : poll_sleeps[k] = 50 * k * k
        /\ cpc = "poll" => Len(poll_sleeps) = polls
        /\ (cpc # "poll" /\ polls > 0) => Len(poll_sleeps) = polls - 1

\* Four polls were made, the last one giving the asset id, with sleeps of
\* 50, 200 and 450 ms between them.
C29_Witness ==
    /\ PollingClient
    /\ cpc = "ret"
    /\ cresult.kind = "Ok"
    /\ polls = 4
    /\ poll_sleeps = <<50, 200, 450>>

\* Input a needs, as a folder segment, the name that input b needs as its
\* final segment: b's segments are a proper prefix of a's.
FolderWhereLeaf(a, b) ==
    /\ a.config.codegen /\ b.config.codegen
    /\ Segments(a) # None /\ Segments(b) # None
    /\ Segments(b)[1] # <<>>
    /\ Len(Segments(b)[1]) < Len(Segments(a)[1])
    /\ SubSeq(Segments(a)[1], 1, Len(Segments(b)[1])) = Segments(b)[1]

\* C31: in the codegen tree a name within one folder is never both a Folder
\* and a leaf InputGroup; when one processed input needs a name as a folder
\* segment and another processed input needs the same name as its final
\* segment, construction has aborted, whichever of the two came first.
C31_FolderAndLeafNeverShareName ==
    tree_pc # "off" =>
        /\ root_folder.folders \cap root_folder.groups = {}
        /\ (\E i, j \in 1..(tree_pos - 1) :
                FolderWhereLeaf(tree_inputs[i], tree_inputs[j]))
            => root_folder.panic

\* The leaf ui was placed first and the input ui/b, which needs ui as a
\* folder, aborted the construction.
C31_Witness ==
    /\ tree_pc = "panicked"
    /\ tree_pos = 3
    /\ tree_inputs[1].name = "ui"
    /\ tree_inputs[2].name = "ui/b"
    /\ root_folder.panic

\* The response asks for a CSRF retry: status 403 with an X-CSRF-Token header.
ForbiddenWithToken(r) == r.net /\ r.status = 403 /\ r.csrf # "none"

\* What the caller of execute_with_csrf_retry makes of the response r it
\* is handed back.
HandedBack(r) ==
    /\ Len(attempt_log') = Len(attempt_log) + 1
    /\ Last(attempt_log').outcome = LegacyOutcome(version, phase, UploadImageRaw(r))

C32_SendStep ==
    (Transport(version, api_key) = "legacy" /\ Len(requests') = Len(requests) + 1) =>
        LET q == Last(requests')
            r == Last(responses')
        IN  /\ Len(responses') = Len(requests')
            /\ q.kind \in {"upload", "resend"}
            /\ q.kind = "upload" =>
                 /\ cpc = "send"
                 /\ q.csrf = csrf_token
                 /\ IF ForbiddenWithToken(r)
                    THEN /\ cpc' = "resend"
                         /\ csrf_token' = r.csrf
                         /\ attempt_log' = attempt_log
                    ELSE /\ cpc' # "resend"
                         /\ csrf_token' = csrf_token
                         /\ HandedBack(r)
            /\ q.kind = "resend" =>
                 /\ cpc = "resend"
                 /\ Last(requests).kind = "upload"
                 /\ ForbiddenWithToken(Last(responses))
                 /\ q.csrf = Last(responses).csrf
                 /\ cpc' # "resend"
                 /\ csrf_token' = csrf_token
                 /\ HandedBack(r)

\* C32: execute_with_csrf_retry sends a request at most twice. The second
\* send happens only when the first response has status 403 and carries an
\* X-CSRF-Token header; the stored CSRF token is set to the header's value
\* before the second send, the resend carries it, and the second response
\* is returned whatever its status. In every other case the first
\* response is returned and the stored CSRF token is unchanged.
C32_CsrfRetryAtMostOnce == [][C32_SendStep]_vars

\* A request was resent with the token of a 403 reply, and the second
\* reply, a 500, was handed back to the caller.
C32_Witness ==
    /\ Transport(version, api_key) = "legacy"
    /\ Len(requests) = 2
    /\ requests[1].kind = "upload" /\ requests[1].csrf = "none"
    /\ responses[1].status = 403 /\ responses[1].csrf = "tok"
    /\ requests[2].kind = "resend" /\ requests[2].csrf = "tok"
    /\ responses[2].status = 500
    /\ csrf_token = "tok"
    /\ Len(attempt_log) = 1
    /\ attempt_log[1].outcome = ClientErr(ResponseError(500, BodyOther))

\* RetryBackend::upload runs over the Roblox backend with an Open Cloud
\* client of roblox_api or roblox_web_api.
OpenCloudUpload == backend = "Roblox" /\ Transport(version, api_key) = "cloud"

\* C33: within one RetryBackend::upload call over the Roblox backend with
\* the Open Cloud client, once the service has accepted a create request
\* for the input (an operation path was returned), no second create
\* request is issued for that input, whatever the later poll results are.
C33_AcceptedUploadNotRepeated ==
    OpenCloudUpload =>
        \A i, j \in 1..Len(creates) : i < j => ~ creates[i].accepted

\* A create request follows an accepted one only in a later attempt of
\* the retry loop, after the attempt of the accepted one was rate limited.
AcceptedUploadRepeatedOnlyAfterRateLimit ==
    (OpenCloudUpload /\ \E i, j \in 1..Len(creates) : i < j /\ creates[i].accepted) =>
        /\ index >= 1
        /\ \E k \in 1..Len(inner_results) : inner_results[k] = RateLimited

\* One step of RetryBackend::upload, as C34 has it: the attempts count and
\* the delay are left as RetryBackend::new set them; the attempts are
\* max_retries + 1; a rate-limited attempt is followed by another one as
\* long as this call has made fewer than that; the call gives up only
\* after max_retries + 1 attempts of its own; and every call starts with
\* an attempt, whatever the calls before it used.
C34_UploadStep ==
    /\ attempts' = attempts
    /\ delay' = delay
    /\ max_retries' = max_retries
    /\ IsSucc(attempts, max_retries)
    /\ (rpc = "match" /\ IsRateLimited(Last(inner_results)) /\ BelowSucc(calls, max_retries))
         => (rpc' = "sleep" /\ result' = NoResult)
    /\ (rpc = "match" /\ IsRateLimited(Last(inner_results)) /\ rpc' = "done")
         => (IsSucc(calls, max_retries) /\ AllRateLimited(inner_results))
    /\ (rpc \in {"idle", "done"} /\ upload_calls' = upload_calls + 1)
         => (rpc' = "call" /\ calls' = 0 /\ index' = 0)

\* C34: the retry budget of a RetryBackend is per upload call, not
\* shared: upload never changes the decorator's attempts count or delay,
\* so in any sequence of uploads each call may use the full
\* max_retries + 1 attempts regardless of how many attempts earlier calls
\* used.
C34_BudgetPerUploadCall == [][C34_UploadStep]_vars

\* With max_retries below usize::MAX the budget is per call, as C34 says;
\* the attempts count and the delay are left alone whatever max_retries.
BudgetPerUploadCallBelowMax ==
    [][/\ attempts' = attempts
       /\ delay' = delay
       /\ BelowMax => C34_UploadStep]_vars

\* The second upload call on one decorator used all of its
\* max_retries + 1 >= 2 attempts, after a first call that had used its own.
SecondCallUsedFullBudget ==
    /\ upload_calls = 2
    /\ rpc = "done"
    /\ max_retries >= 1
    /\ calls = max_retries + 1
    /\ result = RateLimited
    /\ backend = "Count"
    /\ counter > calls

\* One step of RetryBackend::upload, as C35 has it: the caller's
\* UploadInfo is kept for the whole call, every attempt made so far was
\* given it unchanged, and the first request a Roblox attempt sends
\* carries its name and contents.
C35_AttemptStep ==
    /\ rpc \notin {"idle", "done"} => data' = data
    /\ Len(passed') = calls'
    /\ \A k \in 1..Len(passed') : passed'[k] = data'
    /\ (requests = <<>> /\ requests' # <<>>) =>
         /\ requests'[1].name = data.name
         /\ requests'[1].image_data = data.contents

\* C35: every attempt that RetryBackend::upload makes passes the wrapped
\* backend the caller's original UploadInfo (same name, contents and
\* hash); in particular, after an attempt that fell back to the generic
\* name "image" for moderation and was then rate limited, the next attempt
\* starts again with the original name.
C35_EveryAttemptGetsOriginalData == [][C35_AttemptStep]_vars

\* With the Open Cloud client the first attempt was moderated, uploaded
\* under "image" and was rate limited; the second attempt has sent its
\* first request under the original name.
C35_Witness ==
    /\ version = "roblox_api" /\ api_key
    /\ rpc = "inner"
    /\ index = 1
    /\ mod_retries = 1
    /\ phase = 1
    /\ inner_results = <<RateLimited>>
    /\ data.name = "foo"
    /\ passed = <<data, data>>
    /\ Len(requests) = 1
    /\ requests[1].name = "foo"

\* One step of a DebugSyncBackend, as C36 has it: last_id never goes
\* down; every upload, failed ones included, moves it up by one; and an id
\* that is handed out is the new last_id, above every id handed out before.
\* A failed upload leaves no file, or the file of the id it used up with
\* fewer bytes than it was given.
C36_DebugStep ==
    backend = "Debug" =>
        /\ last_id' >= last_id
        /\ calls' = calls + 1 =>
             /\ last_id' = last_id + 1
             /\ Last(inner_results').kind \in {"Ok", "Err"}
             /\ Last(inner_results').kind = "Ok" =>
                  /\ Last(inner_results').id = last_id'
                  /\ \A i \in 1..Len(debug_files) :
                         debug_files[i].path < Last(inner_results').id
                  /\ debug_files' = Append(debug_files,
                                           [path |-> last_id', contents |-> data.contents])
             /\ Last(inner_results').kind = "Err" =>
                  /\ Last(inner_results') = Io
                  /\ \/ debug_files' = debug_files
                     \/ \E k \in 0..(Len(data.contents) - 1) :
                            debug_files' =
                                Append(debug_files,
                                       [path |-> last_id',
                                        contents |-> SubSeq(data.contents, 1, k)])
        /\ calls' # calls + 1 => last_id' = last_id

\* C36: ids handed out by one DebugSyncBackend are never reused and
\* strictly increase over any sequence of uploads, including sequences in
\* which some uploads fail with an I/O error: the counter last_id never
\* decreases and a failed upload still consumes its id.
C36_DebugIdsStrictlyIncrease == [][C36_DebugStep]_vars

\* The first upload failed in the write, one byte of two in file 1, and
\* the second was handed id 2: last_id is 2.
C36_Witness ==
    /\ backend = "Debug"
    /\ rpc = "done"
    /\ debug_log = <<Io, SyncOk(2)>>
    /\ result = SyncOk(2)
    /\ last_id = 2
    /\ debug_files = <<[path |-> 1, contents |-> <<1>>],
                       [path |-> 2, contents |-> data.contents]>>

\* A rendering step: fmt_ts of a PropertySignature, a Statement or an
\* Expression was called on the stream.
Rendering == ts_calls' = ts_calls + 1 /\ ts_op' \in {"fmt_ts", "statement", "expression"}

\* One rendering, as C37 has it: the assertion of unindent has not failed,
\* on the stream or on a stream nested in it, and a rendering that
\* returned Ok left indent_level as it found it.
C37_RenderingStep ==
    Rendering =>
        /\ ~ stream'.underflow
        /\ (~ stream'.panic /\ ~ stream'.error) =>
               stream'.indent_level = stream.indent_level

\* C37: rendering any Statement or Expression through the TS stream writer
\* keeps indentation balanced: indent_level is never decremented below
\* zero (the unindent assertion never fails) and, after a rendering
\* completes without a write error, indent_level equals its value before
\* the rendering started.
C37_RenderingKeepsIndentBalanced == [][C37_RenderingStep]_vars

\* After an indent call, an interface whose member is typed by a type
\* literal was rendered and returned Ok: the stream is back at level 1.
C37_Witness ==
    /\ ts_op = "statement"
    /\ ts_node = Some(InterfaceDeclaration(<<"a">>, None,
           <<PropertySignature(<<"b">>, None,
               TypeLiteral(<<PropertySignature(<<"a">>, None, Identifier(<<"T">>))>>))>>))
    /\ ts_pc = "open"
    /\ ~ stream.error
    /\ stream.indent_level = 1
    /\ Occurs(<<"\t", "\t", "b", ":", " ", "{", "\n">>, stream.inner)

\* A rendering that returned Err through `?` inside the members of a type
\* literal skipped the unindent call: the level is one higher than before.
WriteErrorLeavesLevelHigher ==
    /\ ts_op = "expression"
    /\ ts_calls = 1
    /\ stream.error
    /\ stream.indent_level = 1

\* A rendering that returned Err left indent_level as it was or higher.
WriteErrorNeverLowersLevel ==
    [][(Rendering /\ stream'.error) =>
           stream'.indent_level >= stream.indent_level]_vars

\* A reply to a GET of the operation that carries no response yet: the
\* request went through, the status is a success, the body decodes and its
\* `response` field is absent.
PendingReply(reply) ==
    reply.net /\ IsSuccess(reply.status) /\ reply.json /\ reply.asset_id = None

\* A reply to a GET that carries a response.
ResponseReply(reply) ==
    reply.net /\ IsSuccess(reply.status) /\ reply.json /\ reply.asset_id # None

\* One GET of the loop of api::opencloud's upload_image, as C38 has it:
\* a reply without a response keeps the call in the loop with nothing
\* returned; a reply with a response ends it, the call returning the
\* parsed asset id; a GET that failed ends it, the call returning an
\* error.
C38_PollStep ==
    cpc = "apipoll" =>
        /\ poll_reply' # None
        /\ LET reply == poll_reply'[1]
               id == ParseU64(reply.asset_id[1])
           IN  /\ PendingReply(reply) =>
                     /\ cpc' = "apipoll"
                     /\ UNCHANGED <<cresult, rpc, attempt_log, requests, cdata>>
               /\ ResponseReply(reply) =>
                     /\ cpc' = "ret"
                     /\ id # <<>>
                     /\ cresult' = ClientOk(id[1], id[1])
               /\ (~PendingReply(reply) /\ ~ResponseReply(reply)) =>
                     /\ cpc' = "ret"
                     /\ cresult'.kind = "Err"

\* C38: OpenCloudClient::upload_image in api/opencloud.rs keeps issuing GET
\* requests for the operation until a reply carries a response, and
\* returns only then (with the parsed asset id) or when a GET fails;
\* provided the service eventually returns a response or an error, the
\* call eventually returns.
C38_PollsUntilResponseOrFailure == [][C38_PollStep]_vars

\* One GET of the loop as the code has it: beside the two returns, a reply
\* with a response whose asset id is no number and a failed GET whose body
\* cannot be read end the call in a panic.
PollStepOrPanic ==
    cpc = "apipoll" =>
        /\ poll_reply' # None
        /\ LET reply == poll_reply'[1]
               id == ParseU64(reply.asset_id[1])
           IN  /\ PendingReply(reply) =>
                     /\ cpc' = "apipoll"
                     /\ UNCHANGED <<cresult, rpc, attempt_log, requests, cdata>>
               /\ ResponseReply(reply) =>
                     \/ cpc' = "ret" /\ id # <<>> /\ cresult' = ClientOk(id[1], id[1])
                     \/ cpc' = "idle" /\ id = <<>> /\ rpc' = "panicked"
               /\ (~PendingReply(reply) /\ ~ResponseReply(reply)) =>
                     \/ cpc' = "ret" /\ cresult'.kind = "Err"
                     \/ cpc' = "idle" /\ ~reply.readable /\ rpc' = "panicked"

PollEndsInReturnOrPanic == [][PollStepOrPanic]_vars

\* The loop went round at least twice on replies without a response, and
\* the GET after them carried the response: upload_image returned its id.
PolledUntilResponse ==
    /\ polls = MaxPolls
    /\ cpc = "ret"
    /\ poll_reply = Some(ApiReply(TRUE, 200, TRUE, TRUE, None, Some(<<"1", "2">>), NoText))
    /\ cresult = ClientOk(12, 12)

\* The GET carried a response whose asset id is no number: the call
\* panicked.
PollPanickedOnAssetId ==
    /\ rpc = "panicked"
    /\ poll_reply # None
    /\ ResponseReply(poll_reply[1])
    /\ ParseU64(poll_reply[1].asset_id[1]) = <<>>

====
